---- MODULE Spec2Model ----
(***************************************************************************)
(* Matching core of the NGN<->CNY remittance platform: the transaction     *)
(* FSM, the Redis pool store with its distributed lock, webhook ingestion, *)
(* the stale-INITIATED expiry sweep, trader cancel and the matching cycle. *)
(*                                                                         *)
(* Amounts are integers in hundredths (Numeric(18,2)); times are hours.    *)
(* The database is PostgreSQL at READ COMMITTED: a session reads committed *)
(* rows, an UPDATE takes the row lock until commit or rollback, and writes *)
(* only the columns the session changed.                                   *)
(***************************************************************************)
EXTENDS Integers, Sequences, FiniteSets, TLC

\* ------------------------------------------------------------------ bounds
NTxn == 3
NProc == 2
NHook == 2
MaxTicks == 1
MaxCycles == 2
MaxPayments == 3
MaxInFlight == 2
MaxCancels == 1
MaxPoolA == 2
MaxPoolB == 3
MaxLadder == 11
MaxFetches == 3
MaxQuotes == 1
MaxCreates == 3
NCreate == 2

Txns == 1 .. NTxn
Procs == 1 .. NProc
Hooks == 1 .. NHook

\* ------------------------------------------------------- program constants
\* create_transaction minimum amounts, hundredths
MIN_AMOUNT_NGN == 1000000
MIN_AMOUNT_CNY == 10000
\* rate service: percent, seconds, hundredths of NGN
CIRCUIT_BREAKER_THRESHOLD == 3
CIRCUIT_BREAKER_WINDOW == 3600
CIRCUIT_BREAKER_COOLDOWN == 900
FX_RATE_CACHE_TTL_SECONDS == 60
FX_QUOTE_TTL_SECONDS == 60
MIN_FEE_NGN == 500000
\* WhatsApp payment flow, hundredths
MIN_NGN == 1000000
MIN_CNY == 10000
LOCK_TIMEOUT_SECONDS == 300
POOL_TIMEOUT_HOURS == 24
POOL_EXPIRY_HOURS == 24
PAYMENT_EXPIRY_HOURS == 2
AMOUNT_TOLERANCE_NGN == 10000
MIN_ACCEPT_RATIO == 95
MULTI_MIN_FILL_PCT == 95
MULTI_MAX_LEGS == 10
PARTIAL_MIN_PCT == 10

\* EXACT_TOLERANCE_PCT = 0.5 as the fraction 1/2
EXACT_TOLERANCE_NUM == 1
EXACT_TOLERANCE_DEN == 2

BUY == "ngn_to_cny"
SELL == "cny_to_ngn"
Directions == {BUY, SELL}

\* pool-entry ids and transaction ids are both uuid4 values: they never
\* coincide, so pool-entry ids are drawn from a range disjoint from Txns
PoolIdBase == 10
NoId == 0
NoTime == -1
NoAmount == -1

\* ------------------------------------------------------- transaction FSM
INITIATED == "initiated"
FUNDED == "funded"
MATCHING == "matching"
MATCHED == "matched"
PARTIAL_MATCHED == "partial_matched"
PENDING_SETTLEMENT == "pending_settlement"
SETTLING == "settling"
COMPLETED == "completed"
FAILED == "failed"
REFUNDED == "refunded"
CANCELLED == "cancelled"
EXPIRED == "expired"

TransactionStatus ==
  {INITIATED, FUNDED, MATCHING, MATCHED, PARTIAL_MATCHED, PENDING_SETTLEMENT,
   SETTLING, COMPLETED, FAILED, REFUNDED, CANCELLED, EXPIRED}

VALID_TRANSITIONS ==
  [s \in TransactionStatus |->
     CASE s = INITIATED -> {FUNDED, CANCELLED, EXPIRED}
       [] s = FUNDED -> {MATCHING, CANCELLED, EXPIRED}
       [] s = MATCHING -> {MATCHED, PARTIAL_MATCHED, EXPIRED}
       [] s = MATCHED -> {PENDING_SETTLEMENT}
       [] s = PARTIAL_MATCHED -> {PENDING_SETTLEMENT, MATCHING}
       [] s = PENDING_SETTLEMENT -> {SETTLING, FAILED}
       [] s = SETTLING -> {COMPLETED, FAILED}
       [] s = COMPLETED -> {}
       [] s = FAILED -> {REFUNDED}
       [] s = REFUNDED -> {}
       [] s = CANCELLED -> {}
       [] s = EXPIRED -> {REFUNDED}]

is_valid_transition(from_status, to_status) ==
  to_status \in VALID_TRANSITIONS[from_status]

\* a transition that does not consult the table
transition_to_unchecked(r, new_status, t) ==
  [ok |-> TRUE,
   txn |-> IF new_status = FUNDED
             THEN [r EXCEPT !.status = new_status, !.funded_at = t]
           ELSE IF new_status \in {MATCHED, PARTIAL_MATCHED}
             THEN [r EXCEPT !.status = new_status, !.matched_at = t]
           ELSE IF new_status = COMPLETED
             THEN [r EXCEPT !.status = new_status, !.settled_at = t]
           ELSE [r EXCEPT !.status = new_status]]

\* transition_to on an in-memory transaction object r at time t; the
\* field ok is FALSE when the code raises ValueError (r is then unchanged)
transition_to(r, new_status, t) ==
  IF ~is_valid_transition(r.status, new_status)
  THEN [ok |-> FALSE, txn |-> r]
  ELSE [ok |-> TRUE,
        txn |-> IF new_status = FUNDED
                  THEN [r EXCEPT !.status = new_status, !.funded_at = t]
                ELSE IF new_status \in {MATCHED, PARTIAL_MATCHED}
                  THEN [r EXCEPT !.status = new_status, !.matched_at = t]
                ELSE IF new_status = COMPLETED
                  THEN [r EXCEPT !.status = new_status, !.settled_at = t]
                ELSE [r EXCEPT !.status = new_status]]

\* ------------------------------------------------------------------ state
VARIABLES
  now,          \* wall clock, hours
  ticks,        \* number of clock advances so far
  txns,         \* committed rows of table transactions
  pool_rows,    \* committed rows of table matching_pool
  matches,      \* committed rows of table matches, in insertion order
  row_lock,     \* per transaction row: the webhook session holding its lock
  pool_index,   \* Redis sorted sets pool:{direction}: member -> score
  pool_entry,   \* Redis hashes pool_entry:{id}
  pool_lock,    \* Redis key pool:lock: the token holding it, or NoId
  next_pool_id, \* per transaction, MatchingPool objects created so far
  next_match_id,\* source of fresh matches ids
  eng,          \* run_cycle invocations, one slot per orchestrator process
  hook,         \* webhook deliveries being processed
  sweep,        \* the stale-INITIATED expiry task
  cancel,       \* the trader cancel request being processed
  sent,         \* notifications handed to the task queue
  calls,        \* invocations so far: run_cycle, payment webhook, cancel
  fsm,          \* the last transition_to call and its outcome
  matcher,      \* two pool lists and the result of a matching function
  rate_time,    \* wall clock of the rate service, minutes
  rate_cache,   \* Redis key fx_rates:USD: cached rate and its expiry
  rate_history, \* Redis sorted set rate_history:NGN_CNY: rate -> timestamp
  breaker,      \* Redis key circuit_breaker:rates: its expiry, or NoTime
  quotes,       \* Redis keys quote:{id}: the quotes stored
  fetches,      \* provider.fetch_rates calls so far
  rate_reply,   \* the last answer of the rate service or its endpoints
  trader,       \* committed row of table traders
  create,       \* create_transaction requests being processed
  scorer,       \* the last calculate_priority call of priority.py
  store_op,     \* the last PoolManager calls on the pool store
  lock_op       \* the last acquire_lock or release_lock call

\* the rate service and the trader row
rate_vars ==
  <<rate_time, rate_cache, rate_history, breaker, quotes, fetches, rate_reply>>
trader_vars == <<trader, create>>
\* calls of the pure functions and of the pool manager on their own
aux_vars == <<scorer, store_op, lock_op>>
svc_vars == <<fsm, matcher, rate_vars, trader_vars, aux_vars>>

\* the matching engine, the payment webhook, the sweep and the cancel request
core_vars ==
  <<now, ticks, txns, pool_rows, matches, row_lock, pool_index, pool_entry,
    pool_lock, next_pool_id, next_match_id, eng, hook, sweep, cancel, sent, calls>>

vars == <<core_vars, svc_vars>>

db_vars == <<txns, pool_rows, matches>>
redis_pool_vars == <<pool_index, pool_entry>>

\* ------------------------------------------------------------- Redis pool
_pool_key(direction) == IF direction = BUY THEN BUY ELSE SELL

NoEntry ==
  [id |-> NoId, transaction_id |-> NoId, source_amount |-> NoAmount,
   direction |-> "", entered_pool_at |-> NoTime, expires_at |-> NoTime]

\* ZADD + HSET in one MULTI/EXEC pipeline
add_to_pool(index, entries, pool_entry_id, transaction_id, direction, data, score) ==
  LET key == _pool_key(direction)
      mapping == [data EXCEPT !.id = pool_entry_id,
                              !.transaction_id = transaction_id]
  IN [index |-> [index EXCEPT ![key] =
                   [m \in DOMAIN index[key] \cup {pool_entry_id} |->
                      IF m = pool_entry_id THEN score ELSE index[key][m]]],
      entries |-> [m \in DOMAIN entries \cup {pool_entry_id} |->
                     IF m = pool_entry_id THEN mapping ELSE entries[m]]]

\* remove_from_pool without the DEL
remove_from_pool_index_only(index, entries, pool_entry_id, direction) ==
  LET key == _pool_key(direction)
  IN [index |-> [index EXCEPT ![key] =
                   [m \in DOMAIN index[key] \ {pool_entry_id} |-> index[key][m]]],
      entries |-> entries]

\* ZREM + DEL in one MULTI/EXEC pipeline
remove_from_pool(index, entries, pool_entry_id, direction) ==
  LET key == _pool_key(direction)
  IN [index |-> [index EXCEPT ![key] =
                   [m \in DOMAIN index[key] \ {pool_entry_id} |-> index[key][m]]],
      entries |-> [m \in DOMAIN entries \ {pool_entry_id} |-> entries[m]]]

\* update_entry_amount that also writes the amount as the score
update_entry_amount_rescored(index, entries, pool_entry_id, new_amount) ==
  [index |-> [d \in DOMAIN index |->
                [m \in DOMAIN index[d] |->
                   IF m = pool_entry_id THEN new_amount ELSE index[d][m]]],
   entries |-> [m \in DOMAIN entries \cup {pool_entry_id} |->
                  IF m = pool_entry_id
                  THEN IF m \in DOMAIN entries
                       THEN [entries[m] EXCEPT !.source_amount = new_amount]
                       ELSE [NoEntry EXCEPT !.source_amount = new_amount]
                  ELSE entries[m]]]

\* HSET pool_entry:{id} source_amount: creates the hash when it is absent
update_entry_amount(index, entries, pool_entry_id, new_amount) ==
  [index |-> index,
   entries |-> [m \in DOMAIN entries \cup {pool_entry_id} |->
                  IF m = pool_entry_id
                  THEN IF m \in DOMAIN entries
                       THEN [entries[m] EXCEPT !.source_amount = new_amount]
                       ELSE [NoEntry EXCEPT !.source_amount = new_amount]
                  ELSE entries[m]]]

\* ZREVRANGE 0 -1 WITHSCORES: score descending, equal scores by member
\* descending
RECURSIVE zrevrange(_)
zrevrange(zs) ==
  IF DOMAIN zs = {} THEN <<>>
  ELSE LET top == CHOOSE m \in DOMAIN zs :
                    \A o \in DOMAIN zs :
                      \/ zs[m] > zs[o]
                      \/ zs[m] = zs[o] /\ m >= o
       IN <<[id |-> top, score |-> zs[top]]>>
            \o zrevrange([o \in DOMAIN zs \ {top} |-> zs[o]])

RECURSIVE snapshot_entries(_, _)
snapshot_entries(members, entries) ==
  IF members = <<>> THEN <<>>
  ELSE LET m == Head(members)
           rest == snapshot_entries(Tail(members), entries)
       IN IF m.id \in DOMAIN entries
          THEN <<entries[m.id] @@ [score |-> m.score]>> \o rest
          ELSE rest

get_pool_snapshot(index, entries, direction) ==
  snapshot_entries(zrevrange(index[_pool_key(direction)]), entries)

\* a lock that is handed out whether or not the key exists
acquire_lock_always(held, token) == [acquired |-> TRUE, held |-> token]

\* redis-py Lock: SET pool:lock token NX PX; the token is fresh per Lock
\* object, one Lock object per run_cycle invocation
acquire_lock(held, token) ==
  IF held = NoId THEN [acquired |-> TRUE, held |-> token]
  ELSE [acquired |-> FALSE, held |-> held]

\* a release that deletes the key whatever it holds
release_lock_unconditional(held, token) == NoId

\* Lock.release deletes the key only when it still holds this token;
\* otherwise it raises, and release_lock swallows the exception
release_lock(held, token) ==
  IF held = token THEN NoId ELSE held

\* --------------------------------------------------------------- matchers
Min(a, b) == IF a <= b THEN a ELSE b
Max(a, b) == IF a >= b THEN a ELSE b
Abs(a) == IF a >= 0 THEN a ELSE 0 - a

\* Decimal(source_amount or amount or "0"): a hash without the field counts 0
_amount(entry) ==
  IF entry.source_amount = NoAmount THEN 0 ELSE entry.source_amount

\* a tolerance taken of the sell amount
within_exact_tolerance_of_b(a_amt, b_amt) ==
  Abs(a_amt - b_amt) * 100 * EXACT_TOLERANCE_DEN <= EXACT_TOLERANCE_NUM * b_amt

\* abs(a - b) / a * 100 <= tolerance_pct, with tolerance_pct = NUM / DEN
within_exact_tolerance(a_amt, b_amt) ==
  Abs(a_amt - b_amt) * 100 * EXACT_TOLERANCE_DEN <= EXACT_TOLERANCE_NUM * a_amt

\* a match descriptor; exact and partial carry one entry in pool_b_entries
\* (the code's pool_b_entry)
Descriptor(type, a, legs, matched, rem_a, rem_b) ==
  [type |-> type, pool_a_entry |-> a, pool_b_entries |-> legs,
   matched_amount |-> matched, pool_a_remaining |-> rem_a,
   pool_b_remaining |-> rem_b]

pool_b_entry(m) == m.pool_b_entries[1]

\* the entries of a pool not yet used and with a positive amount
Unused(pool, used) ==
  {j \in 1 .. Len(pool) : j \notin used /\ _amount(pool[j]) > 0}

SetMin(S) == CHOOSE x \in S : \A y \in S : x <= y

RECURSIVE exact_from(_, _, _, _)
exact_from(pool_a, pool_b, i, used_b) ==
  IF i > Len(pool_a) THEN <<>>
  ELSE LET a == pool_a[i]
           a_amt == _amount(a)
           cand == IF a_amt <= 0 THEN {}
                   ELSE {j \in Unused(pool_b, used_b) :
                           within_exact_tolerance(a_amt, _amount(pool_b[j]))}
       IN IF cand = {} THEN exact_from(pool_a, pool_b, i + 1, used_b)
          ELSE LET j == SetMin(cand)
                   b == pool_b[j]
               IN <<Descriptor("exact", a, <<b>>, Min(a_amt, _amount(b)), 0, 0)>>
                    \o exact_from(pool_a, pool_b, i + 1, used_b \cup {j})

run_exact_matching(pool_a, pool_b) == exact_from(pool_a, pool_b, 1, {})

\* the leg loop of _greedy_multi: indices taken, in candidate order
\* a leg loop that stops only when the target is assembled
RECURSIVE greedy_legs_uncapped(_, _, _, _, _, _)
greedy_legs_uncapped(target_amt, candidates, used, idx, legs, assembled) ==
  IF idx > Len(candidates) THEN legs
  ELSE LET c_amt == _amount(candidates[idx])
       IN IF idx \in used \/ c_amt <= 0 \/ c_amt >= target_amt
          THEN greedy_legs_uncapped(target_amt, candidates, used, idx + 1,
                                    legs, assembled)
          ELSE IF assembled + c_amt >= target_amt
               THEN Append(legs, idx)
               ELSE greedy_legs_uncapped(target_amt, candidates, used, idx + 1,
                                         Append(legs, idx), assembled + c_amt)

RECURSIVE greedy_legs(_, _, _, _, _, _)
greedy_legs(target_amt, candidates, used, idx, legs, assembled) ==
  IF idx > Len(candidates) THEN legs
  ELSE LET c_amt == _amount(candidates[idx])
       IN IF idx \in used \/ c_amt <= 0 \/ c_amt >= target_amt
          THEN greedy_legs(target_amt, candidates, used, idx + 1, legs, assembled)
          ELSE IF Len(legs) + 1 >= MULTI_MAX_LEGS
                  \/ assembled + c_amt >= target_amt
               THEN Append(legs, idx)
               ELSE greedy_legs(target_amt, candidates, used, idx + 1,
                                Append(legs, idx), assembled + c_amt)

RECURSIVE SumAmounts(_, _)
SumAmounts(pool, idxs) ==
  IF idxs = <<>> THEN 0
  ELSE _amount(pool[Head(idxs)]) + SumAmounts(pool, Tail(idxs))

SeqRange(s) == {s[k] : k \in 1 .. Len(s)}

\* result of _greedy_multi: found = FALSE stands for None
_greedy_multi(target, candidates, used_indices) ==
  LET target_amt == _amount(target)
      legs == IF target_amt <= 0 THEN <<>>
              ELSE greedy_legs(target_amt, candidates, used_indices, 1, <<>>, 0)
      assembled == SumAmounts(candidates, legs)
  IN IF legs = <<>> \/ assembled * 100 < MULTI_MIN_FILL_PCT * target_amt
     THEN [found |-> FALSE, used |-> used_indices, match |-> <<>>]
     ELSE [found |-> TRUE,
           used |-> used_indices \cup SeqRange(legs),
           match |-> <<Descriptor("multi", target,
                                  [k \in 1 .. Len(legs) |-> candidates[legs[k]]],
                                  Min(assembled, target_amt), 0, 0)>>]

\* one direction of run_multi_matching: every unused target in order;
\* used_t are consumed targets, used_c consumed candidates
RECURSIVE multi_pass(_, _, _, _, _)
multi_pass(targets, candidates, i, used_t, used_c) ==
  IF i > Len(targets)
  THEN [matches |-> <<>>, used_t |-> used_t, used_c |-> used_c]
  ELSE IF i \in used_t
  THEN multi_pass(targets, candidates, i + 1, used_t, used_c)
  ELSE LET r == _greedy_multi(targets[i], candidates, used_c)
           rest == multi_pass(targets, candidates, i + 1,
                              IF r.found THEN used_t \cup {i} ELSE used_t,
                              r.used)
       IN [rest EXCEPT !.matches = r.match \o rest.matches]

run_multi_matching(pool_a, pool_b) ==
  LET d1 == multi_pass(pool_a, pool_b, 1, {}, {})
      d2 == multi_pass(pool_b, pool_a, 1, d1.used_c, d1.used_t)
  IN d1.matches \o d2.matches

\* the overlap measured against the smaller amount only
partial_ok_smaller_only(a_amt, b_amt) ==
  LET matched == Min(a_amt, b_amt)
      smaller == Min(a_amt, b_amt)
  IN ~(smaller > 0 /\ matched * 100 < PARTIAL_MIN_PCT * smaller)

partial_ok(a_amt, b_amt) ==
  LET matched == Min(a_amt, b_amt)
      smaller == Min(a_amt, b_amt)
      larger == Max(a_amt, b_amt)
  IN /\ ~(smaller > 0 /\ matched * 100 < PARTIAL_MIN_PCT * smaller)
     /\ ~(larger > 0 /\ matched * 100 < PARTIAL_MIN_PCT * larger)

RECURSIVE partial_from(_, _, _, _)
partial_from(pool_a, pool_b, i, used_b) ==
  IF i > Len(pool_a) THEN <<>>
  ELSE LET a == pool_a[i]
           a_amt == _amount(a)
           cand == IF a_amt <= 0 THEN {}
                   ELSE {j \in Unused(pool_b, used_b) :
                           partial_ok(a_amt, _amount(pool_b[j]))}
       IN IF cand = {} THEN partial_from(pool_a, pool_b, i + 1, used_b)
          ELSE LET j == SetMin(cand)
                   b == pool_b[j]
                   matched == Min(a_amt, _amount(b))
               IN <<Descriptor("partial", a, <<b>>, matched,
                               a_amt - matched, _amount(b) - matched)>>
                    \o partial_from(pool_a, pool_b, i + 1, used_b \cup {j})

run_partial_matching(pool_a, pool_b) == partial_from(pool_a, pool_b, 1, {})

\* ids a list of descriptors refers to (pool_a_entry, pool_b_entry, legs)
consumed_ids(ms) ==
  UNION {{ms[k].pool_a_entry.id}
           \cup {ms[k].pool_b_entries[l].id : l \in 1 .. Len(ms[k].pool_b_entries)}
         : k \in 1 .. Len(ms)} \ {NoId}

\* a cleanup between passes that removes nothing
_remove_matched_entries_none(pool, ms) == pool

_remove_matched_entries(pool, ms) ==
  SelectSeq(pool, LAMBDA e : e.id \notin consumed_ids(ms))

\* steps 2-6 of _execute_cycle on the two snapshots, innermost stage last
PartialStage(exact, multi, buy1, sell1, buy2, sell2) ==
  [exact |-> exact, multi |-> multi,
   partial |-> run_partial_matching(buy2, sell2),
   buy1 |-> buy1, sell1 |-> sell1, buy2 |-> buy2, sell2 |-> sell2]

MultiStage(exact, multi, buy1, sell1) ==
  PartialStage(exact, multi, buy1, sell1,
               _remove_matched_entries(buy1, multi),
               _remove_matched_entries(sell1, multi))

ExactStage(exact, buy1, sell1) ==
  MultiStage(exact, run_multi_matching(buy1, sell1), buy1, sell1)

Cleaned(buy_pool, sell_pool, exact) ==
  ExactStage(exact, _remove_matched_entries(buy_pool, exact),
             _remove_matched_entries(sell_pool, exact))

Pipeline(buy_pool, sell_pool) ==
  Cleaned(buy_pool, sell_pool, run_exact_matching(buy_pool, sell_pool))

\* ------------------------------------------------------------ persistence
\* an ORM object loaded by a session: the row as read plus which of its
\* columns the session has written since
Loaded(row) ==
  row @@ [status_dirty |-> FALSE, funded_dirty |-> FALSE,
          matched_dirty |-> FALSE, match_dirty |-> FALSE,
          method_dirty |-> FALSE, amount_dirty |-> FALSE]

\* the outcome r of transition_to on a loaded object: on ValueError the
\* object is as before, otherwise the assigned columns are recorded
Assigned(obj, r, new_status) ==
  IF ~r.ok THEN obj
  ELSE [r.txn EXCEPT
          !.status_dirty = TRUE,
          !.funded_dirty = @ \/ new_status = FUNDED,
          !.matched_dirty = @ \/ new_status \in {MATCHED, PARTIAL_MATCHED}]

Transition(obj, new_status, t) ==
  Assigned(obj, transition_to(obj, new_status, t), new_status)

\* if txn.status == from_status: txn.transition_to(new_status)
TransitionIf(obj, from_status, new_status, t) ==
  IF obj.status = from_status THEN Transition(obj, new_status, t) ELSE obj

LoadAll(rows) == [t \in DOMAIN rows |-> Loaded(rows[t])]

_is_buy_side(entry) == entry.direction = BUY

_classify_buy_sell(a, b) == IF _is_buy_side(a) THEN <<a, b>> ELSE <<b, a>>

MatchRecord(id, cycle_id, buy_entry, sell_entry, match_type, amount) ==
  [id |-> id, cycle_id |-> cycle_id,
   buy_transaction_id |-> buy_entry.transaction_id,
   sell_transaction_id |-> sell_entry.transaction_id,
   match_type |-> match_type, matched_amount |-> amount,
   status |-> "pending_settlement"]

\* the session state threaded through the persist helpers
\*   mem: loaded transactions   rows: matching_pool as the session sees it
\*   table: Match objects added, ids counted from base
\*   ops: deferred Redis operations
\*   notifs: notifications to dispatch
NextMatchId(st) == st.base + Len(st.table) + 1

AddMatch(st, rec) == [st EXCEPT !.table = Append(@, rec)]

AddOps(st, ops) == [st EXCEPT !.ops = @ \o ops]

\* the assignments of _update_transaction to the loaded transaction
Matched(obj, match_record, target_status, settlement_method, t) ==
  [TransitionIf(TransitionIf(obj, FUNDED, MATCHING, t), MATCHING,
                target_status, t)
     EXCEPT !.match_id = match_record.id,
            !.settlement_method = settlement_method,
            !.match_dirty = TRUE,
            !.method_dirty = TRUE]

Deactivate(rows, pool_entry_id) ==
  {IF row.id = pool_entry_id /\ pool_entry_id # NoId
   THEN [row EXCEPT !.is_active = FALSE] ELSE row : row \in rows}

_update_transaction(st, entry, match_record, target_status, settlement_method, t) ==
  IF entry.transaction_id = NoId \/ entry.transaction_id \notin DOMAIN st.mem
  THEN st
  ELSE [st EXCEPT
          !.mem[entry.transaction_id] =
            Matched(@, match_record, target_status, settlement_method, t),
          !.rows = Deactivate(@, entry.id),
          !.notifs = Append(@, [transaction_id |-> entry.transaction_id,
                                matched_amount |-> match_record.matched_amount,
                                status |-> target_status])]

RemoveOp(entry) ==
  [action |-> "remove", entry_id |-> entry.id, direction |-> entry.direction,
   new_amount |-> NoAmount]

UpdateOp(entry, amount) ==
  [action |-> "update", entry_id |-> entry.id, direction |-> entry.direction,
   new_amount |-> amount]

\* session.add(match_record), then _update_transaction for both sides
PersistPair(st, rec, buy_entry, sell_entry, target_status, settlement_method, t) ==
  _update_transaction(
    _update_transaction(AddMatch(st, rec), buy_entry, rec, target_status,
                        settlement_method, t),
    sell_entry, rec, target_status, settlement_method, t)

ExactPair(st, cycle_id, match, buy_entry, sell_entry, t) ==
  AddOps(PersistPair(st,
                     MatchRecord(NextMatchId(st), cycle_id, buy_entry, sell_entry,
                                 "exact", match.matched_amount),
                     buy_entry, sell_entry, MATCHED, "matched", t),
         <<RemoveOp(buy_entry), RemoveOp(sell_entry)>>)

_persist_exact_match(st, cycle_id, match, t) ==
  ExactPair(st, cycle_id, match,
            _classify_buy_sell(match.pool_a_entry, pool_b_entry(match))[1],
            _classify_buy_sell(match.pool_a_entry, pool_b_entry(match))[2], t)

\* one leg of _persist_multi_match
PersistLeg(st, rec, leg, t) ==
  AddOps(_update_transaction(AddMatch(st, rec), leg, rec, MATCHED, "matched", t),
         <<RemoveOp(leg)>>)

RECURSIVE persist_legs(_, _, _, _, _, _)
persist_legs(st, cycle_id, target_entry, legs, k, t) ==
  IF k > Len(legs) THEN st
  ELSE persist_legs(
         PersistLeg(st,
                    MatchRecord(NextMatchId(st), cycle_id,
                                IF _is_buy_side(target_entry) THEN target_entry
                                ELSE legs[k],
                                IF _is_buy_side(target_entry) THEN legs[k]
                                ELSE target_entry,
                                "multi", _amount(legs[k])),
                    legs[k], t),
         cycle_id, target_entry, legs, k + 1, t)

\* the target is linked to the first leg's record
PersistTarget(st, first_id, target_entry, legs, t) ==
  AddOps(IF Len(legs) > 0
         THEN _update_transaction(st, target_entry, st.table[first_id], MATCHED,
                                  "matched", t)
         ELSE st,
         <<RemoveOp(target_entry)>>)

_persist_multi_match(st, cycle_id, match, t) ==
  PersistTarget(persist_legs(st, cycle_id, match.pool_a_entry,
                             match.pool_b_entries, 1, t),
                Len(st.table) + 1, match.pool_a_entry, match.pool_b_entries, t)

RemainderOp(entry, remaining) ==
  IF remaining = 0 THEN RemoveOp(entry) ELSE UpdateOp(entry, remaining)

PartialPair(st, cycle_id, match, buy_entry, sell_entry, buy_remaining, sell_remaining, t) ==
  AddOps(PersistPair(st,
                     MatchRecord(NextMatchId(st), cycle_id, buy_entry, sell_entry,
                                 "partial", match.matched_amount),
                     buy_entry, sell_entry, PARTIAL_MATCHED, "partial_matched", t),
         <<RemainderOp(buy_entry, buy_remaining),
           RemainderOp(sell_entry, sell_remaining)>>)

_persist_partial_match(st, cycle_id, match, t) ==
  PartialPair(st, cycle_id, match,
              _classify_buy_sell(match.pool_a_entry, pool_b_entry(match))[1],
              _classify_buy_sell(match.pool_a_entry, pool_b_entry(match))[2],
              IF _is_buy_side(match.pool_a_entry) THEN match.pool_a_remaining
              ELSE match.pool_b_remaining,
              IF _is_buy_side(match.pool_a_entry) THEN match.pool_b_remaining
              ELSE match.pool_a_remaining, t)

_transition_remainder(st, entry, t) ==
  IF entry.transaction_id = NoId \/ entry.transaction_id \notin DOMAIN st.mem
  THEN st
  ELSE [st EXCEPT !.mem[entry.transaction_id] =
          TransitionIf(@, PARTIAL_MATCHED, MATCHING, t)]

RemainderOf(st, remaining, entry, t) ==
  IF remaining > 0 THEN _transition_remainder(st, entry, t) ELSE st

RECURSIVE _handle_partial_remainders(_, _, _, _)
_handle_partial_remainders(st, partial_matches, k, t) ==
  IF k > Len(partial_matches) THEN st
  ELSE _handle_partial_remainders(
         RemainderOf(RemainderOf(st, partial_matches[k].pool_a_remaining,
                                 partial_matches[k].pool_a_entry, t),
                     partial_matches[k].pool_b_remaining,
                     pool_b_entry(partial_matches[k]), t),
         partial_matches, k + 1, t)

\* what check_timeouts returns for a stale entry: the pool-entry id under
\* the key transaction_id, and no key pool_entry_id
TimedOut(entry, direction) ==
  [transaction_id |-> entry.id, pool_entry_id |-> NoId,
   direction |-> direction, reason |-> "pool_timeout"]

\* the assignments of _handle_timeouts to the loaded transaction
Expired(obj, t) ==
  IF is_valid_transition(obj.status, EXPIRED)
  THEN [Transition(obj, EXPIRED, t)
          EXCEPT !.settlement_method = "cips_settled", !.method_dirty = TRUE]
  ELSE obj

TimeoutOf(st, e, t) ==
  IF e.transaction_id = NoId \/ e.transaction_id \notin DOMAIN st.mem THEN st
  ELSE [st EXCEPT !.mem[e.transaction_id] = Expired(@, t),
                  !.rows = Deactivate(@, e.pool_entry_id)]

RECURSIVE _handle_timeouts(_, _, _, _)
_handle_timeouts(st, timed_out, k, t) ==
  IF k > Len(timed_out) THEN st
  ELSE _handle_timeouts(TimeoutOf(st, timed_out[k], t), timed_out, k + 1, t)

\* one iteration of the three persist loops of step 8
persist_match(st, cycle_id, match, t) ==
  CASE match.type = "exact" -> _persist_exact_match(st, cycle_id, match, t)
    [] match.type = "multi" -> _persist_multi_match(st, cycle_id, match, t)
    [] OTHER -> _persist_partial_match(st, cycle_id, match, t)

RECURSIVE persist_matches(_, _, _, _, _)
persist_matches(st, cycle_id, ms, k, t) ==
  IF k > Len(ms) THEN st
  ELSE persist_matches(persist_match(st, cycle_id, ms[k], t), cycle_id, ms,
                       k + 1, t)

\* step 8 of _execute_cycle, inside session.begin()
PersistAll(st, cycle_id, exact, multi, partial, timed_out, t) ==
  _handle_timeouts(
    _handle_partial_remainders(
      persist_matches(st, cycle_id, exact \o multi \o partial, 1, t),
      partial, 1, t),
    timed_out, 1, t)

\* COMMIT at READ COMMITTED: each UPDATE carries only the columns the
\* session changed and lands on the row as it is committed now
\* a commit that writes every column of the loaded object
CommitTxn_all_columns(row, obj) ==
  [row EXCEPT
     !.status = obj.status, !.funded_at = obj.funded_at,
     !.matched_at = obj.matched_at, !.match_id = obj.match_id,
     !.settlement_method = obj.settlement_method,
     !.source_amount = obj.source_amount, !.fee_amount = obj.fee_amount]

CommitTxn(row, obj) ==
  [row EXCEPT
     !.status = IF obj.status_dirty THEN obj.status ELSE @,
     !.funded_at = IF obj.funded_dirty THEN obj.funded_at ELSE @,
     !.matched_at = IF obj.matched_dirty THEN obj.matched_at ELSE @,
     !.match_id = IF obj.match_dirty THEN obj.match_id ELSE @,
     !.settlement_method = IF obj.method_dirty THEN obj.settlement_method ELSE @,
     !.source_amount = IF obj.amount_dirty THEN obj.source_amount ELSE @,
     !.fee_amount = IF obj.amount_dirty THEN obj.fee_amount ELSE @]

IsDirty(obj) ==
  obj.status_dirty \/ obj.funded_dirty \/ obj.matched_dirty \/ obj.match_dirty
    \/ obj.method_dirty \/ obj.amount_dirty

\* -------------------------------------------------------------- ingestion
\* floor and remainder of s * p / e without leaving 32 bits: p is taken
\* digit by digit (s and e stay below 10^8 hundredths)
RECURSIVE MulDiv(_, _, _)
MulDiv(s, p, e) ==
  IF p = 0 THEN [q |-> 0, r |-> 0]
  ELSE LET h == MulDiv(s, p \div 10, e)
           t == h.r * 10 + s * (p % 10)
       IN [q |-> h.q * 10 + t \div e, r |-> t % e]

\* (x * paid / expected).quantize(Decimal("0.01")): the decimal context
\* rounds half to even
ScaleQuantize(x, paid, expected) ==
  LET d == MulDiv(x, paid, expected)
  IN IF 2 * d.r > expected THEN d.q + 1
     ELSE IF 2 * d.r < expected THEN d.q
     ELSE IF d.q % 2 = 0 THEN d.q ELSE d.q + 1

\* a classification that looks at the ratio before the tolerance
ClassifyPayment_ratio_first(source_amount, fee_amount, paid) ==
  LET expected_amount == source_amount + fee_amount
      diff == Abs(paid - expected_amount)
  IN IF paid > expected_amount /\ diff > AMOUNT_TOLERANCE_NGN THEN "overpayment"
     ELSE IF expected_amount > 0 /\ paid < expected_amount
               /\ MulDiv(paid, 100, expected_amount).q >= MIN_ACCEPT_RATIO
          THEN "adjusted"
     ELSE IF diff <= AMOUNT_TOLERANCE_NGN THEN "exact"
     ELSE "held"

\* ratio >= MIN_ACCEPT_RATIO is decided on floor(100 * paid / expected)
ClassifyPayment(source_amount, fee_amount, paid) ==
  LET expected_amount == source_amount + fee_amount
      diff == Abs(paid - expected_amount)
  IN IF diff <= AMOUNT_TOLERANCE_NGN THEN "exact"
     ELSE IF paid > expected_amount THEN "overpayment"
     ELSE IF expected_amount > 0
               /\ MulDiv(paid, 100, expected_amount).q >= MIN_ACCEPT_RATIO
          THEN "adjusted"
     ELSE "held"

\* priority in units of 1 / 12000000; amount in hundredths
TierScore(kyc_tier) ==
  CASE kyc_tier = 1 -> 25 [] kyc_tier = 2 -> 60 [] kyc_tier = 3 -> 100
    [] OTHER -> 0

calculate_priority(hours_in_pool, amount, kyc_tier) ==
  20000000 * Min(Max(hours_in_pool, 0), 24)
    + 42 * Min(Max(amount, 0), 10000000)
    + 3000000 * TierScore(kyc_tier)

\* ------------------------------------------------------------------- Init
TxnDirection(t) == IF t \in {1, 4} THEN BUY ELSE SELL

TxnAmount(t) ==
  CASE t = 1 -> 500000 [] t = 2 -> 500000 [] OTHER -> 200000

TxnTier(t) == (t % 3) + 1

InitTxn(t) ==
  [direction |-> TxnDirection(t), source_amount |-> TxnAmount(t),
   fee_amount |-> TxnAmount(t) \div 50, kyc_tier |-> TxnTier(t),
   status |-> INITIATED, match_id |-> NoId, settlement_method |-> "",
   funded_at |-> NoTime, matched_at |-> NoTime, settled_at |-> NoTime,
   created_at |-> 0]

EngIdle ==
  [pc |-> "idle", cycle_id |-> NoTime, buy_pool |-> <<>>, sell_pool |-> <<>>,
   plan |-> <<>>, timed_out |-> <<>>, seen |-> <<>>, deactivated |-> {}, added |-> <<>>,
   redis_ops |-> <<>>, notifications |-> <<>>, released |-> <<>>,
   result |-> ""]

HookIdle ==
  [pc |-> "idle", txn |-> NoId, paid |-> NoAmount, classification |-> "",
   obj |-> <<>>, pool_entry_id |-> NoId, entered_pool_at |-> NoTime,
   result |-> ""]

SweepIdle == [pc |-> "idle", stale |-> {}]

CancelIdle == [pc |-> "idle", txn |-> NoId, obj |-> <<>>]

\* monthly limits by KYC tier, hundredths of USD
TIER_LIMITS == <<500000, 5000000, 50000000>>

\* the trader row after registration: nothing used, the limit of tier 1, no
\* session holding the row, no transaction of this trader
NewTrader ==
  [monthly_used |-> 0, monthly_limit |-> TIER_LIMITS[1], lock |-> NoId,
   created |-> <<>>]

Creators == 1 .. NCreate

\* a create_transaction request: the Trader object its session loaded,
\* the pending Transaction and the answer
CreateIdle ==
  [pc |-> "idle", seen_used |-> 0, amount_usd |-> 0, txn |-> <<>>,
   result |-> ""]

\* no transition_to call yet
NoTransit == [txn |-> NoId, new_status |-> "", ok |-> TRUE]

\* nothing cached, no rate recorded, no quote stored
NoRate ==
  [ngn_per_usd |-> 0, cny_per_usd |-> 0, ngn_per_cny |-> 0, expires |-> NoTime]
NoReply == [call |-> "", status |-> "", quote |-> <<>>]

\* Redis holds no key of the rate service
InitRate ==
  /\ rate_time = 0
  /\ rate_cache = NoRate
  /\ rate_history = <<>>
  /\ breaker = NoTime
  /\ quotes = {}
  /\ fetches = 0
  /\ rate_reply = NoReply

\* the trader row after registration and the idle request slots
InitTrader ==
  /\ trader = NewTrader
  /\ create = [c \in Creators |-> CreateIdle]

\* no matching function called
NoRun == [pool_a |-> <<>>, pool_b |-> <<>>, fn |-> "", out |-> <<>>]

\* no priority computed, no pool manager call made
NoScore == [wait_hours |-> 0, amount |-> 0, kyc_level |-> "", completed_transactions |-> 0,
            called |-> FALSE, out |-> 0]
NoStoreOp == [calls |-> 0, log |-> <<>>]

NoLockOp ==
  [calls |-> 0, active |-> {},
   last |-> [fn |-> "", token |-> NoId, before |-> NoId, after |-> NoId]]

InitAux ==
  /\ scorer = NoScore
  /\ store_op = NoStoreOp
  /\ lock_op = NoLockOp

InitSvc ==
  /\ fsm = NoTransit
  /\ matcher = NoRun
  /\ InitRate
  /\ InitTrader
  /\ InitAux

Init ==
  /\ InitSvc
  /\ now = 0
  /\ ticks = 0
  /\ txns = [t \in Txns |-> InitTxn(t)]
  /\ pool_rows = {}
  /\ matches = <<>>
  /\ row_lock = [t \in Txns |-> NoId]
  /\ pool_index = [d \in Directions |-> <<>>]
  /\ pool_entry = <<>>
  /\ pool_lock = NoId
  /\ next_pool_id = [t \in Txns |-> 0]
  /\ next_match_id = 0
  /\ eng = [p \in Procs |-> EngIdle]
  /\ hook = [h \in Hooks |-> HookIdle]
  /\ sweep = SweepIdle
  /\ cancel = CancelIdle
  /\ sent = {}
  /\ calls = [cycle |-> 0, payment |-> 0, cancel |-> 0]

\* ---------------------------------------------------------------- run_cycle
CycleSteps == {"timeouts", "commit", "redis", "release"}

InCycle(p) == eng[p].pc \in CycleSteps

\* invocations in progress, of any kind
InFlight ==
  Cardinality({p \in Procs : eng[p].pc # "idle"})
    + Cardinality({h \in Hooks : hook[h].pc # "idle"})
    + (IF sweep.pc # "idle" THEN 1 ELSE 0)
    + (IF cancel.pc # "idle" THEN 1 ELSE 0)

\* a new invocation runs on the lowest idle process
FreeProc(p) ==
  /\ eng[p].pc = "idle"
  /\ \A q \in Procs : q < p => eng[q].pc # "idle"

\* steps 1-6 of _execute_cycle
Started(buy_pool, sell_pool) ==
  [EngIdle EXCEPT !.pc = "timeouts", !.cycle_id = now,
                  !.buy_pool = buy_pool, !.sell_pool = sell_pool,
                  !.plan = Pipeline(buy_pool, sell_pool)]

Acquired(p, r) ==
  /\ pool_lock' = r.held
  /\ eng' = [eng EXCEPT ![p] =
               IF r.acquired
               THEN Started(get_pool_snapshot(pool_index, pool_entry, BUY),
                            get_pool_snapshot(pool_index, pool_entry, SELL))
               ELSE [EngIdle EXCEPT !.pc = "skipped", !.result = "skipped"]]

\* lock = acquire_lock(); if lock is None: return {"skipped": True};
\* otherwise _execute_cycle up to step 6
AcquireLock(p) ==
  /\ FreeProc(p)
  /\ InFlight < MaxInFlight
  /\ calls.cycle < MaxCycles
  /\ calls' = [calls EXCEPT !.cycle = @ + 1]
  /\ Acquired(p, acquire_lock(pool_lock, p))
  /\ UNCHANGED <<svc_vars, now, ticks, db_vars, row_lock, redis_pool_vars, next_pool_id,
                 next_match_id, hook, sweep, cancel, sent>>

\* the Redis key pool:lock reaches its PX timeout while its owner still runs
LockExpire ==
  /\ pool_lock # NoId
  /\ pool_lock' = NoId
  /\ UNCHANGED <<svc_vars, now, ticks, db_vars, row_lock, redis_pool_vars, next_pool_id,
                 next_match_id, eng, hook, sweep, cancel, sent, calls>>

\* check_timeouts over one direction: r is the store so far and the list
\* returned so far
RECURSIVE timeout_pass(_, _, _, _, _)
timeout_pass(r, entries, k, direction, cutoff) ==
  IF k > Len(entries) THEN r
  ELSE LET entry == entries[k]
       IN IF entry.entered_pool_at # NoTime /\ entry.entered_pool_at < cutoff
          THEN LET rm == remove_from_pool(r.index, r.entries, entry.id, direction)
               IN timeout_pass([index |-> rm.index, entries |-> rm.entries,
                                timed_out |-> Append(r.timed_out,
                                                     TimedOut(entry, direction))],
                               entries, k + 1, direction, cutoff)
          ELSE timeout_pass(r, entries, k + 1, direction, cutoff)

SellTimeouts(r, cutoff) ==
  timeout_pass(r, get_pool_snapshot(r.index, r.entries, SELL), 1, SELL, cutoff)

\* a sweep whose cutoff lies after the present hour
check_timeouts_no_cutoff(index, entries, t) ==
  SellTimeouts(timeout_pass([index |-> index, entries |-> entries,
                             timed_out |-> <<>>],
                            get_pool_snapshot(index, entries, BUY), 1, BUY,
                            t + 1),
               t + 1)

check_timeouts(index, entries, t) ==
  SellTimeouts(timeout_pass([index |-> index, entries |-> entries,
                             timed_out |-> <<>>],
                            get_pool_snapshot(index, entries, BUY), 1, BUY,
                            t - POOL_TIMEOUT_HOURS),
               t - POOL_TIMEOUT_HOURS)

\* what the session holds when the session.begin() body is done
Persisted(p, r, s) ==
  /\ pool_index' = r.index
  /\ pool_entry' = r.entries
  /\ eng' = [eng EXCEPT ![p] =
               [@ EXCEPT !.pc = "commit",
                         !.timed_out = r.timed_out,
                         !.seen = [t \in {u \in Txns : IsDirty(s.mem[u])} |->
                                     s.mem[t]],
                         !.deactivated =
                           {row.id : row \in {x \in s.rows : ~x.is_active}}
                             \ {row.id : row \in {x \in pool_rows : ~x.is_active}},
                         !.added = s.table,
                         !.redis_ops = s.ops,
                         !.notifications = s.notifs]]
  /\ next_match_id' = next_match_id + Len(s.table)

Session ==
  [mem |-> LoadAll(txns), rows |-> pool_rows, table |-> <<>>,
   base |-> next_match_id, ops |-> <<>>, notifs |-> <<>>]

TimeoutsChecked(p, r) ==
  Persisted(p, r, PersistAll(Session, eng[p].cycle_id, eng[p].plan.exact,
                             eng[p].plan.multi, eng[p].plan.partial,
                             r.timed_out, now))

\* step 7, then step 8 up to the end of the session.begin() body: every
\* SELECT sees committed rows
Persist(p) ==
  /\ eng[p].pc = "timeouts"
  /\ TimeoutsChecked(p, check_timeouts(pool_index, pool_entry, now))
  /\ UNCHANGED <<svc_vars, now, ticks, db_vars, row_lock, pool_lock, next_pool_id, hook,
                 sweep, cancel, sent, calls>>

AfterCommit(e) == IF e.redis_ops # <<>> THEN "redis" ELSE "release"

\* step 8, leaving session.begin(): the UPDATEs wait for row locks held by
\* other sessions, then everything commits
PersistCommit(p) ==
  /\ eng[p].pc = "commit"
  /\ \A t \in DOMAIN eng[p].seen : row_lock[t] = NoId
  /\ LET e == eng[p]
     IN /\ txns' = [t \in Txns |->
                      IF t \in DOMAIN e.seen THEN CommitTxn(txns[t], e.seen[t])
                      ELSE txns[t]]
        /\ pool_rows' = {IF row.id \in e.deactivated
                         THEN [row EXCEPT !.is_active = FALSE] ELSE row
                         : row \in pool_rows}
        /\ matches' = matches \o e.added
        /\ eng' = [eng EXCEPT ![p] =
                     [e EXCEPT !.pc = AfterCommit(e), !.seen = <<>>,
                               !.deactivated = {}]]
  /\ UNCHANGED <<svc_vars, now, ticks, row_lock, redis_pool_vars, pool_lock,
                 next_pool_id, next_match_id, hook, sweep, cancel, sent, calls>>

apply_redis_op(index, entries, op) ==
  IF op.action = "remove"
  THEN remove_from_pool(index, entries, op.entry_id, op.direction)
  ELSE IF op.action = "update"
  THEN update_entry_amount(index, entries, op.entry_id, op.new_amount)
  ELSE [index |-> index, entries |-> entries]

RECURSIVE _execute_redis_ops(_, _, _)
_execute_redis_ops(index, entries, ops) ==
  IF ops = <<>> THEN [index |-> index, entries |-> entries]
  ELSE LET r == apply_redis_op(index, entries, Head(ops))
       IN _execute_redis_ops(r.index, r.entries, Tail(ops))

\* step 9
ExecuteRedisOps(p) ==
  /\ eng[p].pc = "redis"
  /\ LET r == _execute_redis_ops(pool_index, pool_entry, eng[p].redis_ops)
     IN /\ pool_index' = r.index
        /\ pool_entry' = r.entries
  /\ eng' = [eng EXCEPT ![p] = [@ EXCEPT !.pc = "release", !.redis_ops = <<>>]]
  /\ UNCHANGED <<svc_vars, now, ticks, db_vars, row_lock, pool_lock, next_pool_id,
                 next_match_id, hook, sweep, cancel, sent, calls>>

\* step 10, then finally: release_lock(lock)
ReleaseLock(p) ==
  /\ eng[p].pc = "release"
  /\ sent' = sent \cup
       {[kind |-> "match", transaction_id |-> eng[p].notifications[k].transaction_id,
         text |-> eng[p].notifications[k].status]
        : k \in 1 .. Len(eng[p].notifications)}
  /\ pool_lock' = release_lock(pool_lock, p)
  /\ eng' = [eng EXCEPT ![p] =
               [@ EXCEPT !.pc = "return", !.notifications = <<>>,
                         !.released = Append(@, p),
                         !.result = IF @ = "error" THEN @ ELSE "report"]]
  /\ UNCHANGED <<svc_vars, now, ticks, db_vars, row_lock, redis_pool_vars, next_pool_id,
                 next_match_id, hook, sweep, cancel, calls>>

\* run_cycle hands its result, or the exception, to the caller
Return(p) ==
  /\ eng[p].pc \in {"return", "skipped"}
  /\ eng' = [eng EXCEPT ![p] = EngIdle]
  /\ UNCHANGED <<svc_vars, now, ticks, db_vars, row_lock, redis_pool_vars, pool_lock,
                 next_pool_id, next_match_id, hook, sweep, cancel, sent, calls>>

\* --------------------------------------------------------- payment webhook
\* the transactions a trader asks to cancel
CancelTargets == {1}

\* what the payer sends, in percent of the amount due at creation
PaidPercents(t) ==
  CASE t = 1 -> {110} [] t = 2 -> {96, 100} [] t = 3 -> {80, 100}
    [] OTHER -> {100}

PaidAmount(t, pct) ==
  ((InitTxn(t).source_amount + InitTxn(t).fee_amount) * pct) \div 100

FreeHook(h) ==
  /\ hook[h].pc = "idle"
  /\ \A g \in Hooks : g < h => hook[g].pc # "idle"

\* _process_payment steps 2-5, up to the first flush, for the transaction
\* the account number names
Receive(h, t, paid) ==
  /\ FreeHook(h)
  /\ InFlight < MaxInFlight
  /\ calls.payment < MaxPayments
  /\ calls' = [calls EXCEPT !.payment = @ + 1]
  /\ LET txn == Loaded(txns[t])
         classification ==
           ClassifyPayment(txn.source_amount, txn.fee_amount, paid)
         expected_amount == txn.source_amount + txn.fee_amount
         adjusted ==
           [txn EXCEPT
              !.source_amount = ScaleQuantize(txn.source_amount, paid, expected_amount),
              !.fee_amount = ScaleQuantize(txn.fee_amount, paid, expected_amount),
              !.amount_dirty = TRUE]
         req == [HookIdle EXCEPT !.txn = t, !.paid = paid]
     IN IF txn.status # INITIATED
        THEN /\ hook' = [hook EXCEPT ![h] =
                           [req EXCEPT !.pc = "commit", !.obj = txn,
                                       !.result = "duplicate"]]
             /\ sent' = sent
        ELSE IF classification = "held"
        THEN /\ hook' = [hook EXCEPT ![h] =
                           [req EXCEPT !.pc = "commit", !.obj = txn,
                                       !.classification = classification,
                                       !.result = "held"]]
             /\ sent' = sent \cup {[kind |-> "status", transaction_id |-> t,
                                    text |-> "underpaid"]}
        ELSE /\ hook' = [hook EXCEPT ![h] =
                           [req EXCEPT
                              !.pc = "flush",
                              !.classification = classification,
                              !.obj = Transition(IF classification = "adjusted"
                                                 THEN adjusted ELSE txn,
                                                 FUNDED, now)]]
             /\ sent' = sent
  /\ UNCHANGED <<svc_vars, now, ticks, db_vars, row_lock, redis_pool_vars, pool_lock,
                 next_pool_id, next_match_id, eng, sweep, cancel>>

\* a delivery for transaction t that pays pct percent of the amount due
HookReceive(h, t, pct) == Receive(h, t, PaidAmount(t, pct))

\* account numbers are "TF" followed by the reference suffix; the suffix of
\* transaction t is <<t>>
AccountOf(t) == <<"T", "F", t>>

\* account numbers no transaction was given
BadAccounts == {<<"X", "X", 1>>, <<"T", "F">>, <<"T", "F", NTxn + 1>>}

\* select(Transaction).where(Transaction.reference == reference)
\* .scalar_one_or_none(), for reference = "TXN-" + account_number[2:]
Lookup(account_number) ==
  LET suffix == SubSeq(account_number, 3, Len(account_number))
  IN IF \E t \in Txns : suffix = <<t>>
     THEN CHOOSE t \in Txns : suffix = <<t>>
     ELSE NoId

\* _process_payment steps 1-2: the HTTPException raised, or "" for none
Rejection(account_number) ==
  IF Len(account_number) < 3 \/ SubSeq(account_number, 1, 2) # <<"T", "F">>
  THEN "400"
  ELSE IF Lookup(account_number) = NoId THEN "404"
  ELSE ""

\* _process_payment raising at step 1 or 2
HookReject(h, account_number) ==
  /\ FreeHook(h)
  /\ InFlight < MaxInFlight
  /\ calls.payment < MaxPayments
  /\ Rejection(account_number) # ""
  /\ calls' = [calls EXCEPT !.payment = @ + 1]
  /\ hook' = [hook EXCEPT ![h] =
                [HookIdle EXCEPT !.pc = "raise",
                                 !.result = Rejection(account_number)]]
  /\ UNCHANGED <<svc_vars, now, ticks, db_vars, row_lock, redis_pool_vars, pool_lock,
                 next_pool_id, next_match_id, eng, sweep, cancel, sent>>

\* get_db: rollback, then the exception goes on to the framework
HookRaise(h) ==
  /\ hook[h].pc = "raise"
  /\ hook' = [hook EXCEPT ![h] = HookIdle]
  /\ UNCHANGED <<svc_vars, now, ticks, db_vars, row_lock, redis_pool_vars, pool_lock,
                 next_pool_id, next_match_id, eng, sweep, cancel, sent, calls>>

\* the row a MatchingPool(...) object becomes
PoolRow(id, obj, t, entered_at) ==
  [id |-> id, transaction_id |-> t, direction |-> obj.direction,
   amount |-> obj.source_amount,
   priority_score |-> calculate_priority(0, obj.source_amount, obj.kyc_tier),
   is_active |-> TRUE, entered_pool_at |-> entered_at,
   expires_at |-> entered_at + POOL_EXPIRY_HOURS]

PoolData(obj, entered_at) ==
  [NoEntry EXCEPT !.source_amount = obj.source_amount,
                  !.direction = obj.direction,
                  !.entered_pool_at = entered_at,
                  !.expires_at = entered_at + POOL_EXPIRY_HOURS]

\* matching_pool without its unique constraint
UniqueViolation_never(rows, t) == FALSE

\* UNIQUE (transaction_id) on matching_pool
UniqueViolation(rows, t) == \E row \in rows : row.transaction_id = t

\* a fresh uuid4 for the MatchingPool object of transaction t
NewPoolId(t) == PoolIdBase * (1 + next_pool_id[t]) + t

\* steps 5-11. The two flushes: UPDATE transactions waits for the row lock
\* and keeps it; INSERT matching_pool fails on the unique transaction_id,
\* and the request is rolled back. Then add_to_pool, the notification and
\* the return statement
HookAddToPool(h) ==
  /\ hook[h].pc = "flush"
  /\ row_lock[hook[h].txn] = NoId
  /\ LET q == hook[h]
         id == NewPoolId(q.txn)
         r == add_to_pool(pool_index, pool_entry, id, q.txn, q.obj.direction,
                          PoolData(q.obj, now),
                          calculate_priority(0, q.obj.source_amount,
                                             q.obj.kyc_tier))
     IN IF UniqueViolation(pool_rows, q.txn)
        THEN /\ hook' = [hook EXCEPT ![h] = HookIdle]
             /\ UNCHANGED <<row_lock, next_pool_id, redis_pool_vars, sent>>
        ELSE /\ row_lock' = [row_lock EXCEPT ![q.txn] = h]
             /\ next_pool_id' = [next_pool_id EXCEPT ![q.txn] = @ + 1]
             /\ pool_index' = r.index
             /\ pool_entry' = r.entries
             /\ sent' = sent \cup {[kind |-> "status", transaction_id |-> q.txn,
                                    text |-> "funded"]}
             /\ hook' = [hook EXCEPT ![h] =
                           [q EXCEPT !.pc = "commit", !.pool_entry_id = id,
                                     !.entered_pool_at = now,
                                     !.result = "success"]]
  /\ UNCHANGED <<svc_vars, now, ticks, db_vars, pool_lock, next_match_id, eng, sweep,
                 cancel, calls>>

\* get_db: commit after the handler has returned
HookCommit(h) ==
  /\ hook[h].pc = "commit"
  /\ LET q == hook[h]
     IN /\ txns' = [txns EXCEPT ![q.txn] = CommitTxn(@, q.obj)]
        /\ pool_rows' = IF q.pool_entry_id = NoId THEN pool_rows
                        ELSE pool_rows \cup
                               {PoolRow(q.pool_entry_id, q.obj, q.txn,
                                        q.entered_pool_at)}
        /\ row_lock' = [t \in Txns |-> IF row_lock[t] = h THEN NoId
                                        ELSE row_lock[t]]
  /\ hook' = [hook EXCEPT ![h] = HookIdle]
  /\ UNCHANGED <<svc_vars, now, ticks, matches, redis_pool_vars, pool_lock, next_pool_id,
                 next_match_id, eng, sweep, cancel, sent, calls>>

\* ------------------------------------------------- expiry sweep and cancel
SweepSelect ==
  /\ sweep.pc = "idle"
  /\ InFlight < MaxInFlight
  /\ LET cutoff == now - PAYMENT_EXPIRY_HOURS
         stale == {t \in Txns : txns[t].status = INITIATED
                                  /\ txns[t].created_at < cutoff}
     IN /\ stale # {}
        /\ sweep' = [pc |-> "commit",
                     stale |-> [t \in stale |->
                                  Transition(Loaded(txns[t]), EXPIRED, now)]]
        /\ sent' = sent \cup {[kind |-> "status", transaction_id |-> t,
                               text |-> "expired"] : t \in stale}
  /\ UNCHANGED <<svc_vars, now, ticks, db_vars, row_lock, redis_pool_vars, pool_lock,
                 next_pool_id, next_match_id, eng, hook, cancel, calls>>

SweepCommit ==
  /\ sweep.pc = "commit"
  /\ \A t \in DOMAIN sweep.stale : row_lock[t] = NoId
  /\ txns' = [t \in Txns |->
                IF t \in DOMAIN sweep.stale THEN CommitTxn(txns[t], sweep.stale[t])
                ELSE txns[t]]
  /\ sweep' = SweepIdle
  /\ UNCHANGED <<svc_vars, now, ticks, pool_rows, matches, row_lock, redis_pool_vars,
                 pool_lock, next_pool_id, next_match_id, eng, hook, cancel, sent, calls>>

\* cancel_transaction up to transition_to; a status other than INITIATED
\* is answered 409 and nothing is written
CancelRequest(t) ==
  /\ cancel.pc = "idle"
  /\ txns[t].status = INITIATED
  /\ InFlight < MaxInFlight
  /\ calls.cancel < MaxCancels
  /\ calls' = [calls EXCEPT !.cancel = @ + 1]
  /\ cancel' = [pc |-> "commit", txn |-> t,
                obj |-> Transition(Loaded(txns[t]), CANCELLED, now)]
  /\ UNCHANGED <<svc_vars, now, ticks, db_vars, row_lock, redis_pool_vars, pool_lock,
                 next_pool_id, next_match_id, eng, hook, sweep, sent>>

\* flush, then get_db commits
CancelCommit ==
  /\ cancel.pc = "commit"
  /\ row_lock[cancel.txn] = NoId
  /\ txns' = [txns EXCEPT ![cancel.txn] = CommitTxn(@, cancel.obj)]
  /\ cancel' = CancelIdle
  /\ UNCHANGED <<svc_vars, now, ticks, pool_rows, matches, row_lock, redis_pool_vars,
                 pool_lock, next_pool_id, next_match_id, eng, hook, sweep, sent, calls>>

\* -------------------------------------------------------------------- time
TickHours == {25}

\* hours pass between invocations; an invocation itself takes less than an
\* hour
Tick(d) ==
  /\ ticks < MaxTicks
  /\ InFlight = 0
  /\ now' = now + d
  /\ ticks' = ticks + 1
  /\ UNCHANGED <<svc_vars, db_vars, row_lock, redis_pool_vars, pool_lock, next_pool_id,
                 next_match_id, eng, hook, sweep, cancel, sent, calls>>

\* ----------------------------------------------------------- specification
Next ==
  \/ \E p \in Procs : AcquireLock(p)
  \/ LockExpire
  \/ \E p \in Procs : Persist(p)
  \/ \E p \in Procs : PersistCommit(p)
  \/ \E p \in Procs : ExecuteRedisOps(p)
  \/ \E p \in Procs : ReleaseLock(p)
  \/ \E p \in Procs : Return(p)
  \/ \E h \in Hooks, t \in Txns : \E pct \in PaidPercents(t) : HookReceive(h, t, pct)
  \/ \E h \in Hooks : HookAddToPool(h)
  \/ \E h \in Hooks : HookCommit(h)
  \/ \E h \in Hooks : \E a \in BadAccounts : HookReject(h, a)
  \/ \E h \in Hooks : HookRaise(h)
  \/ SweepSelect
  \/ SweepCommit
  \/ \E t \in CancelTargets : CancelRequest(t)
  \/ CancelCommit
  \/ \E d \in TickHours : Tick(d)

Spec == Init /\ [][Next]_vars

\* ----------------------------------------------------------------- failures
\* a run_cycle without the finally block
OnError_no_finally == "return"

\* where run_cycle continues when _execute_cycle raises: the finally block
OnError == "release"

\* an exception path on which the collected notifications survive
Failed_keeps_notifications(e) ==
  [e EXCEPT !.pc = OnError, !.result = "error", !.seen = <<>>,
            !.deactivated = {}, !.added = <<>>, !.redis_ops = <<>>]

Failed(e) ==
  [e EXCEPT !.pc = OnError, !.result = "error", !.seen = <<>>,
            !.deactivated = {}, !.added = <<>>, !.redis_ops = <<>>,
            !.notifications = <<>>]

\* the lock is acquired, then a snapshot read or a matcher raises
SnapshotFail(p) ==
  /\ FreeProc(p)
  /\ InFlight < MaxInFlight
  /\ calls.cycle < MaxCycles
  /\ calls' = [calls EXCEPT !.cycle = @ + 1]
  /\ acquire_lock(pool_lock, p).acquired
  /\ pool_lock' = acquire_lock(pool_lock, p).held
  /\ eng' = [eng EXCEPT ![p] = Failed([EngIdle EXCEPT !.cycle_id = now])]
  /\ UNCHANGED <<svc_vars, now, ticks, db_vars, row_lock, redis_pool_vars, next_pool_id,
                 next_match_id, hook, sweep, cancel, sent>>

\* check_timeouts raises, or the database does, before or at COMMIT: the
\* session is rolled back
PersistFail(p) ==
  /\ eng[p].pc \in {"timeouts", "commit"}
  /\ eng' = [eng EXCEPT ![p] = Failed(@)]
  /\ UNCHANGED <<svc_vars, now, ticks, db_vars, row_lock, redis_pool_vars, pool_lock,
                 next_pool_id, next_match_id, hook, sweep, cancel, sent, calls>>

RECURSIVE Without(_, _)
Without(ops, k) ==
  IF ops = <<>> THEN <<>>
  ELSE IF k = 1 THEN Tail(ops)
  ELSE <<Head(ops)>> \o Without(Tail(ops), k - 1)

\* step 9 with one operation raising: it is logged and the loop goes on
RedisOpFail(p) ==
  /\ eng[p].pc = "redis"
  /\ \E k \in 1 .. Len(eng[p].redis_ops) :
       /\ pool_index' = _execute_redis_ops(pool_index, pool_entry,
                                           Without(eng[p].redis_ops, k)).index
       /\ pool_entry' = _execute_redis_ops(pool_index, pool_entry,
                                           Without(eng[p].redis_ops, k)).entries
  /\ eng' = [eng EXCEPT ![p] = [@ EXCEPT !.pc = "release", !.redis_ops = <<>>]]
  /\ UNCHANGED <<svc_vars, now, ticks, db_vars, row_lock, pool_lock, next_pool_id,
                 next_match_id, hook, sweep, cancel, sent, calls>>

\* step 10 with send_match_notification.delay raising for one notification:
\* it is logged and the loop goes on
NotifyFail(p) ==
  /\ eng[p].pc = "release"
  /\ \E k \in 1 .. Len(eng[p].notifications) :
       eng' = [eng EXCEPT ![p] =
                 [@ EXCEPT !.notifications = Without(eng[p].notifications, k)]]
  /\ UNCHANGED <<svc_vars, now, ticks, db_vars, row_lock, redis_pool_vars, pool_lock,
                 next_pool_id, next_match_id, hook, sweep, cancel, sent, calls>>

NextFail ==
  \/ \E p \in Procs : AcquireLock(p)
  \/ LockExpire
  \/ \E p \in Procs : Persist(p)
  \/ \E p \in Procs : PersistCommit(p)
  \/ \E p \in Procs : ExecuteRedisOps(p)
  \/ \E p \in Procs : ReleaseLock(p)
  \/ \E p \in Procs : Return(p)
  \/ \E h \in Hooks, t \in Txns : \E pct \in PaidPercents(t) : HookReceive(h, t, pct)
  \/ \E h \in Hooks : HookAddToPool(h)
  \/ \E h \in Hooks : HookCommit(h)
  \/ \E p \in Procs : SnapshotFail(p)
  \/ \E p \in Procs : PersistFail(p)
  \/ \E p \in Procs : RedisOpFail(p)
  \/ \E p \in Procs : NotifyFail(p)
  \/ \E d \in TickHours : Tick(d)

SpecFail == Init /\ [][NextFail]_vars

\* ------------------------------------------------------------------- claims
RowsOf(rows, t) == {row \in rows : row.transaction_id = t}

EntriesOf(entries, t) ==
  {m \in DOMAIN entries : entries[m].transaction_id = t}

InStore(id) ==
  id \in DOMAIN pool_entry \/ \E d \in Directions : id \in DOMAIN pool_index[d]

\* C1: at no time are two run_cycle invocations both between their
\* successful acquire_lock and their release_lock, whatever the
\* interleaving, the expiry of the lock key included.
C1_OneCycleAtATime ==
  \A p, q \in Procs : p # q => ~(InCycle(p) /\ InCycle(q))

PairOf(rec) == <<rec.buy_transaction_id, rec.sell_transaction_id>>

\* C2: of two run_cycle invocations meeting at the lock, the one that finds
\* the key set returns skipped: it changes neither database nor pool store
\* nor lock, and never calls release_lock; the one that finds it free takes
\* it and runs the cycle; the Match records a cycle commits are pairwise
\* distinct.
C2_SecondInvocationSkipped ==
  [][\A q \in Procs :
       /\ (eng[q].pc = "idle" /\ eng'[q].pc # "idle" /\ pool_lock # NoId)
            => /\ eng'[q].pc = "skipped"
               /\ eng'[q].result = "skipped"
               /\ UNCHANGED <<db_vars, redis_pool_vars, pool_lock, sent>>
       /\ (eng[q].pc = "idle" /\ eng'[q].pc # "idle" /\ pool_lock = NoId)
            => /\ InCycle(q)'
               /\ pool_lock' = q
       /\ (eng[q].pc = "skipped" /\ eng'[q].pc # "skipped")
            => /\ eng[q].released = <<>>
               /\ eng'[q].pc = "idle"
               /\ UNCHANGED <<db_vars, redis_pool_vars, pool_lock, sent>>
       /\ (eng[q].pc = "commit" /\ eng'[q].pc \in {"redis", "release"})
            => /\ matches' = matches \o eng[q].added
               /\ \A i, j \in 1 .. Len(eng[q].added) :
                    i # j => PairOf(eng[q].added[i]) # PairOf(eng[q].added[j])]_vars

C2_Witness ==
  \E p, q \in Procs :
    /\ eng[q].result = "skipped"
    /\ eng[p].result = "report"
    /\ matches # <<>>

RECURSIVE Successors(_, _)
Successors(S, n) ==
  IF n = 0 THEN S
  ELSE Successors(S \cup UNION {VALID_TRANSITIONS[x] : x \in S}, n - 1)

\* to_status can be reached from from_status by one or more allowed
\* transitions
AllowedChange(from_status, to_status) ==
  to_status \in Successors(VALID_TRANSITIONS[from_status],
                           Cardinality(TransactionStatus))

\* C3: every change of a transaction's committed status is made of
\* transitions the table allows, whoever commits it and in whatever
\* interleaving.
C3_StatusChangesFollowFsm ==
  [][\A t \in Txns :
       txns'[t].status # txns[t].status
         => AllowedChange(txns[t].status, txns'[t].status)]_vars

IdsOf(m) ==
  {m.pool_a_entry.id}
    \cup {m.pool_b_entries[l].id : l \in 1 .. Len(m.pool_b_entries)}

PoolIds(pool) == {pool[k].id : k \in 1 .. Len(pool)}

AllDescriptors(plan) == plan.exact \o plan.multi \o plan.partial

C6_LockReleasedOnce ==
  [][\A p \in Procs :
       /\ (InCycle(p) /\ ~InCycle(p)')
            => /\ eng'[p].pc = "return"
               /\ eng'[p].released = <<p>>
       /\ (eng[p].pc = "return" /\ eng'[p].pc # "return")
            => /\ eng[p].released = <<p>>
               /\ eng[p].result \in {"report", "error"}
       /\ Len(eng'[p].released) <= 1]_vars

C6_Witness ==
  \E p \in Procs :
    /\ eng[p].pc = "return"
    /\ eng[p].result = "error"
    /\ eng[p].released = <<p>>
    /\ pool_lock = NoId

OtherDirection(d) == IF d = BUY THEN SELL ELSE BUY

\* C7: a payment for an INITIATED transaction that is classified exact,
\* overpayment or adjusted is taken to the FUNDED transition and the call
\* answers success; when it has answered and commits, the transaction is
\* FUNDED with funded_at set, the only matching_pool row of the transaction
\* is the new one (active, expiring 24 hours after it entered, amount equal
\* to the transaction's source_amount, id equal to the pool_entry_id
\* answered), and the pool store holds one entry for it, in the pool of its
\* direction.
C7_AcceptedPaymentFunds ==
  [][\A h \in Hooks :
       /\ (hook[h].pc = "idle" /\ hook'[h].pc # "idle"
             /\ hook'[h].txn # NoId
             /\ txns[hook'[h].txn].status = INITIATED
             /\ ClassifyPayment(txns[hook'[h].txn].source_amount,
                                txns[hook'[h].txn].fee_amount,
                                hook'[h].paid) # "held")
            => /\ hook'[h].pc = "flush"
               /\ hook'[h].classification \in {"exact", "overpayment", "adjusted"}
               /\ hook'[h].obj.status = FUNDED
               /\ hook'[h].obj.funded_at = now
       /\ (hook[h].pc = "flush" /\ hook'[h].pc # "flush")
            => /\ hook'[h].pc = "commit"
               /\ hook'[h].result = "success"
               /\ hook'[h].pool_entry_id # NoId
       /\ (hook[h].pc = "commit" /\ hook[h].result = "success"
             /\ hook'[h].pc = "idle")
            => LET t == hook[h].txn
                   id == hook[h].pool_entry_id
               IN /\ txns'[t].status = FUNDED
                  /\ txns'[t].funded_at # NoTime
                  /\ pool_rows' \ pool_rows = RowsOf(pool_rows', t)
                  /\ \E row \in pool_rows' :
                       /\ RowsOf(pool_rows', t) = {row}
                       /\ row.id = id
                       /\ row.is_active
                       /\ row.expires_at = row.entered_pool_at + 24
                       /\ row.amount = txns'[t].source_amount
                       /\ row.direction = txns'[t].direction
                  /\ EntriesOf(pool_entry', t) = {id}
                  /\ id \in DOMAIN pool_index'[txns'[t].direction]
                  /\ id \notin DOMAIN pool_index'[OtherDirection(txns'[t].direction)]
                  /\ pool_entry'[id].source_amount = txns'[t].source_amount]_vars

\* C8: at all times there is at most one matching_pool row per
\* transaction, every row expires after it entered, and every active row has
\* its detail hash and its index member in the pool store.
C8_PoolRowsConsistent ==
  /\ \A t \in Txns : Cardinality(RowsOf(pool_rows, t)) <= 1
  /\ \A row \in pool_rows :
       /\ row.expires_at > row.entered_pool_at
       /\ row.is_active =>
            /\ row.id \in DOMAIN pool_entry
            /\ row.id \in DOMAIN pool_index[row.direction]

MatchedSide(entry, rec) ==
  /\ entry.transaction_id \in Txns
  /\ txns[entry.transaction_id].status = MATCHED
  /\ txns[entry.transaction_id].match_id = rec.id
  /\ txns[entry.transaction_id].settlement_method = "matched"
  /\ ~InStore(entry.id)

RecordsOf(cycle_id, buy_entry, sell_entry) ==
  {i \in 1 .. Len(matches) :
     /\ matches[i].cycle_id = cycle_id
     /\ matches[i].buy_transaction_id = buy_entry.transaction_id
     /\ matches[i].sell_transaction_id = sell_entry.transaction_id}

ExactPersisted(cycle_id, buy_entry, sell_entry) ==
  /\ Cardinality(RecordsOf(cycle_id, buy_entry, sell_entry)) = 1
  /\ \A i \in RecordsOf(cycle_id, buy_entry, sell_entry) :
       /\ matches[i].match_type = "exact"
       /\ matches[i].status = "pending_settlement"
       /\ matches[i].matched_amount = Min(_amount(buy_entry), _amount(sell_entry))
       /\ MatchedSide(buy_entry, matches[i])
       /\ MatchedSide(sell_entry, matches[i])

Finished(p) == eng[p].pc = "return" /\ eng[p].result = "report"

\* C9: when a cycle has returned its report, each of its exact matches has
\* exactly one Match record (exact, pending_settlement, the cycle's id, the
\* smaller amount, buy and sell side by direction), both transactions are
\* MATCHED with that match_id and settlement_method matched, and both
\* entries are gone from the pool store.
C9_ExactMatchPersisted ==
  \A p \in Procs :
    Finished(p) =>
      \A k \in 1 .. Len(eng[p].plan.exact) :
        LET m == eng[p].plan.exact[k]
        IN ExactPersisted(eng[p].cycle_id,
                          _classify_buy_sell(m.pool_a_entry, pool_b_entry(m))[1],
                          _classify_buy_sell(m.pool_a_entry, pool_b_entry(m))[2])

LegPersisted(cycle_id, target, leg) ==
  LET buy_entry == IF _is_buy_side(target) THEN target ELSE leg
      sell_entry == IF _is_buy_side(target) THEN leg ELSE target
  IN /\ Cardinality(RecordsOf(cycle_id, buy_entry, sell_entry)) = 1
     /\ \A i \in RecordsOf(cycle_id, buy_entry, sell_entry) :
          /\ matches[i].match_type = "multi"
          /\ MatchedSide(leg, matches[i])

MultiPersisted(cycle_id, m) ==
  /\ \A l \in 1 .. Len(m.pool_b_entries) :
       LegPersisted(cycle_id, m.pool_a_entry, m.pool_b_entries[l])
  /\ Cardinality({i \in 1 .. Len(matches) :
                    /\ matches[i].cycle_id = cycle_id
                    /\ matches[i].match_type = "multi"
                    /\ m.pool_a_entry.transaction_id
                         \in {matches[i].buy_transaction_id,
                              matches[i].sell_transaction_id}})
       = Len(m.pool_b_entries)
  /\ m.pool_a_entry.transaction_id \in Txns
  /\ txns[m.pool_a_entry.transaction_id].status = MATCHED
  /\ ~InStore(m.pool_a_entry.id)

\* C10: when a cycle has returned its report, each of its multi-leg matches
\* with N legs has exactly N Match records of type multi with the cycle's
\* id, one per leg pairing the target with that leg, the target and the N
\* leg transactions are MATCHED, and their entries are gone from the pool
\* store.
C10_MultiMatchPersisted ==
  \A p \in Procs :
    Finished(p) =>
      \A k \in 1 .. Len(eng[p].plan.multi) :
        MultiPersisted(eng[p].cycle_id, eng[p].plan.multi[k])

\* one side of a partial match after the cycle: the remainder side is back
\* in MATCHING with its entry's amount set to the remainder, the filled side
\* is PARTIAL_MATCHED with its entry removed
PartialSide(entry, rec, remaining) ==
  /\ entry.transaction_id \in Txns
  /\ txns[entry.transaction_id].match_id = rec.id
  /\ txns[entry.transaction_id].matched_at # NoTime
  /\ IF remaining > 0
     THEN /\ txns[entry.transaction_id].status = MATCHING
          /\ entry.id \in DOMAIN pool_entry
          /\ entry.id \in DOMAIN pool_index[entry.direction]
          /\ pool_entry[entry.id].source_amount = remaining
     ELSE /\ txns[entry.transaction_id].status = PARTIAL_MATCHED
          /\ ~InStore(entry.id)

PartialPersisted(cycle_id, m) ==
  LET a == m.pool_a_entry
      b == pool_b_entry(m)
      buy_entry == _classify_buy_sell(a, b)[1]
      sell_entry == _classify_buy_sell(a, b)[2]
  IN /\ Cardinality(RecordsOf(cycle_id, buy_entry, sell_entry)) = 1
     /\ \A i \in RecordsOf(cycle_id, buy_entry, sell_entry) :
          /\ matches[i].match_type = "partial"
          /\ matches[i].matched_amount = Min(_amount(a), _amount(b))
          /\ PartialSide(a, matches[i], m.pool_a_remaining)
          /\ PartialSide(b, matches[i], m.pool_b_remaining)

\* C11: when a cycle hands over its report, each of its partial matches has
\* one Match record of type partial with the smaller of the two amounts;
\* both transactions were taken to PARTIAL_MATCHED; the side with a remainder
\* is back in MATCHING and its pool-store entry carries the remainder, the
\* side without remainder is PARTIAL_MATCHED and its entry is removed.
C11_PartialMatchPersisted ==
  [][\A p \in Procs :
       (eng[p].pc = "release" /\ Finished(p)')
         => \A k \in 1 .. Len(eng[p].plan.partial) :
              PartialPersisted(eng[p].cycle_id, eng[p].plan.partial[k])']_vars

\* the pool entries a cycle's timeout sweep found too old; check_timeouts
\* hands each entry's id over under the key transaction_id
SweptIds(p) ==
  {eng[p].timed_out[k].transaction_id : k \in 1 .. Len(eng[p].timed_out)}

\* C12: when a cycle hands over its report, every pool entry its timeout
\* sweep found older than the pool timeout has its matching_pool row
\* inactive and its transaction EXPIRED with settlement_method cips_settled,
\* unless EXPIRED is not allowed from the transaction's status.
C12_TimedOutExpired ==
  [][\A p \in Procs :
       (eng[p].pc = "release" /\ Finished(p)')
         => \A row \in pool_rows' :
              row.id \in SweptIds(p)
                => /\ ~row.is_active
                   /\ ~is_valid_transition(txns'[row.transaction_id].status,
                                           EXPIRED)
                   /\ txns'[row.transaction_id].status = EXPIRED
                        => txns'[row.transaction_id].settlement_method
                             = "cips_settled"]_vars

\* ------------------------------------------------- cycles without an end
\* the periodic task starts cycle after cycle, one at a time
ScheduledCycle(p) ==
  /\ FreeProc(p)
  /\ \A q \in Procs : eng[q].pc = "idle"
  /\ InFlight < MaxInFlight
  /\ Acquired(p, acquire_lock(pool_lock, p))
  /\ UNCHANGED <<svc_vars, now, ticks, db_vars, row_lock, redis_pool_vars, next_pool_id,
                 next_match_id, hook, sweep, cancel, sent, calls>>

\* payments arrive before the clock's last step, so that every entry can
\* grow older than the pool timeout
EarlyPayment(h, t, pct) == ticks = 0 /\ HookReceive(h, t, pct)

NextLive ==
  \/ \E p \in Procs : ScheduledCycle(p)
  \/ \E p \in Procs : Persist(p)
  \/ \E p \in Procs : PersistCommit(p)
  \/ \E p \in Procs : ExecuteRedisOps(p)
  \/ \E p \in Procs : ReleaseLock(p)
  \/ \E p \in Procs : Return(p)
  \/ \E h \in Hooks, t \in Txns : \E pct \in PaidPercents(t) : EarlyPayment(h, t, pct)
  \/ \E h \in Hooks : HookAddToPool(h)
  \/ \E h \in Hooks : HookCommit(h)
  \/ \E d \in TickHours : Tick(d)

\* a cycle that has persisted runs to its end, every started request runs
\* to its end, and the clock moves on whenever nothing is in flight
Fairness ==
  /\ WF_vars(\E p \in Procs : PersistCommit(p))
  /\ WF_vars(\E p \in Procs : ExecuteRedisOps(p))
  /\ WF_vars(\E p \in Procs : ReleaseLock(p))
  /\ WF_vars(\E p \in Procs : Return(p))
  /\ WF_vars(\E h \in Hooks : HookAddToPool(h))
  /\ WF_vars(\E h \in Hooks : HookCommit(h))
  /\ SF_vars(\E d \in TickHours : Tick(d))

SpecLive == Init /\ [][NextLive]_vars /\ Fairness

\* cycles are scheduled fairly: again and again one hands over its report
CyclesKeepRunning == []<>(\E p \in Procs : Finished(p))

\* C13: with cycles scheduled fairly, a transaction that is FUNDED or
\* MATCHING is eventually MATCHED, PARTIAL_MATCHED, or EXPIRED and tagged cips_settled:
\* it does not wait in FUNDED or MATCHING for ever.
C13_FundedEventuallyLeaves ==
  CyclesKeepRunning
    => \A t \in Txns :
         (txns[t].status \in {FUNDED, MATCHING})
           ~> \/ txns[t].status \in {MATCHED, PARTIAL_MATCHED}
              \/ /\ txns[t].status = EXPIRED
                 /\ txns[t].settlement_method = "cips_settled"

\* the entries of a cycle's two snapshots
SnapshotOf(p) ==
  {eng[p].buy_pool[k] : k \in 1 .. Len(eng[p].buy_pool)}
    \cup {eng[p].sell_pool[k] : k \in 1 .. Len(eng[p].sell_pool)}

\* C14: a cycle does not change the pool store before its database
\* transaction has committed: the steps up to and including the commit, or
\* its failure, leave index and detail maps as they are, and when
\* persistence or the commit fails every entry of the cycle's snapshots is
\* still in the pool store with the amount it had.
C14_NoPoolMutationBeforeCommit ==
  [][\A p \in Procs :
       /\ (eng[p].pc \in {"timeouts", "commit"} /\ eng'[p] # eng[p])
            => UNCHANGED redis_pool_vars
       /\ (eng[p].pc \in {"timeouts", "commit"} /\ eng'[p].result = "error")
            => \A e \in SnapshotOf(p) :
                 /\ e.id \in DOMAIN pool_entry'
                 /\ e.id \in DOMAIN pool_index'[e.direction]
                 /\ pool_entry'[e.id].source_amount = e.source_amount]_vars

\* the transactions a Match record cites
CitedBy(rec) == {rec.buy_transaction_id, rec.sell_transaction_id}

\* C15: an entry left behind in the pool store although its transaction is
\* already MATCHED (or PARTIAL_MATCHED without remainder) leads to no second
\* match: the cycle that finds it in its snapshot, and still holds the lock
\* when it commits with no other cycle in progress, commits no Match record
\* citing that transaction and has a remove of the entry among its deferred
\* pool-store operations.
C15_StaleEntryNotRematched ==
  [][\A p \in Procs :
       (eng[p].pc = "commit" /\ eng'[p].pc \in {"redis", "release"}
          /\ pool_lock = p
          /\ \A q \in Procs \ {p} : ~InCycle(q))
         => \A e \in SnapshotOf(p) :
              txns[e.transaction_id].status \in {MATCHED, PARTIAL_MATCHED}
                => /\ \A k \in 1 .. Len(eng[p].added) :
                        e.transaction_id \notin CitedBy(eng[p].added[k])
                   /\ \E k \in 1 .. Len(eng[p].redis_ops) :
                        /\ eng[p].redis_ops[k].action = "remove"
                        /\ eng[p].redis_ops[k].entry_id = e.id]_vars

\* the ids of the entries of a cycle's two snapshots
SnapshotIds(p) == {e.id : e \in SnapshotOf(p)}

\* the entries in the pool store that a running cycle has not snapshotted
ArrivedSince(p) == DOMAIN pool_entry \ SnapshotIds(p)

\* C16: an entry that ingestion put into the pool store after a running
\* cycle took its snapshots is in none of the cycle's match descriptors and
\* every step of that cycle leaves its detail map and its index score as
\* they are; and the snapshots a cycle takes hold every entry the pool
\* store holds at that moment, with its stored fields.
C16_LateEntryLeftForNextCycle ==
  [][\A p \in Procs :
       /\ (InCycle(p) /\ eng'[p] # eng[p])
            => \A id \in ArrivedSince(p) :
                 /\ \A k \in 1 .. Len(AllDescriptors(eng[p].plan)) :
                      id \notin IdsOf(AllDescriptors(eng[p].plan)[k])
                 /\ id \in DOMAIN pool_entry'
                 /\ pool_entry'[id] = pool_entry[id]
                 /\ \A d \in Directions :
                      id \in DOMAIN pool_index[d]
                        => /\ id \in DOMAIN pool_index'[d]
                           /\ pool_index'[d][id] = pool_index[d][id]
       /\ (eng[p].pc = "idle" /\ InCycle(p)')
            => \A d \in Directions :
                 \A id \in DOMAIN pool_index[d] \cap DOMAIN pool_entry :
                   \E e \in SnapshotOf(p)' :
                        /\ e.id = id
                        /\ e.transaction_id = pool_entry[id].transaction_id
                        /\ e.source_amount = pool_entry[id].source_amount]_vars

\* a cycle has matched, cleaned the pool store up and is about to release
\* the lock it holds, and the pool store holds an entry that arrived after
\* its snapshots
C16_Witness ==
  \E p \in Procs :
    /\ eng[p].pc = "release"
    /\ pool_lock = p
    /\ eng[p].added # <<>>
    /\ \E d \in Directions : ArrivedSince(p) \cap DOMAIN pool_index[d] # {}

\* the match notifications handed to the task queue
MatchNotices(S) == {n \in S : n.kind = "match"}

\* the transactions cited by the Match records in a sequence
CitedIn(recs) == UNION {CitedBy(recs[k]) : k \in 1 .. Len(recs)}

\* the notices for a sequence of collected notifications
NoticesOf(notifications) ==
  {[kind |-> "match", transaction_id |-> notifications[k].transaction_id,
    text |-> notifications[k].status] : k \in 1 .. Len(notifications)}

\* C17: a match notification is handed to the task queue only by a cycle
\* at step 10 that has not failed, and only for a transaction cited by a
\* Match record of that cycle which is committed; a cycle whose persistence
\* failed hands over none; a dispatch that raises leaves the cycle at step
\* 10 without an error, and the cycle then hands over every remaining
\* notification and returns its report.
C17_NotificationsAfterCommit ==
  [][/\ \A n \in MatchNotices(sent') \ MatchNotices(sent) :
          \E p \in Procs :
            /\ eng[p].pc = "release" /\ eng[p].result # "error"
            /\ n \in NoticesOf(eng[p].notifications)
            /\ n.transaction_id \in CitedIn(eng[p].added)
            /\ \A k \in 1 .. Len(eng[p].added) :
                 \E j \in 1 .. Len(matches) : matches[j] = eng[p].added[k]
     /\ \A p \in Procs :
          /\ (eng'[p].result = "error" /\ eng'[p] # eng[p])
               => /\ sent' = sent
                  /\ eng'[p].notifications = <<>>
          /\ (eng[p].pc = "release" /\ eng'[p].pc = "release"
                /\ eng'[p].notifications # eng[p].notifications)
               => /\ eng'[p].result = eng[p].result
                  /\ Len(eng'[p].notifications) = Len(eng[p].notifications) - 1
                  /\ \E k \in 1 .. Len(eng[p].notifications) :
                       eng'[p].notifications = Without(eng[p].notifications, k)
          /\ (eng[p].pc = "release" /\ eng'[p].pc = "return")
               => /\ NoticesOf(eng[p].notifications) \subseteq sent'
                  /\ eng[p].result # "error" => Finished(p)']_vars

\* a cycle has returned its report after one dispatch raised: of the two
\* transactions of a Match record it committed, one has its match
\* notification in the task queue and the other has none
C17_Witness ==
  \E p \in Procs :
    /\ Finished(p)
    /\ \E k \in 1 .. Len(eng[p].added) :
         /\ \E n \in MatchNotices(sent) :
              n.transaction_id = eng[p].added[k].buy_transaction_id
         /\ \A n \in MatchNotices(sent) :
              n.transaction_id # eng[p].added[k].sell_transaction_id

\* the answers of a webhook call that funds nothing
Unfunded == {"400", "404", "duplicate", "held"}

\* C18: a webhook call that answers 400, 404, duplicate or held leaves the
\* transactions, the matching_pool rows, the matches, the pool store and
\* the row locks as they are, both when it answers and when its session
\* ends; 400 and 404 are the answers of calls that found no transaction,
\* and an account number made from a transaction's reference gets neither;
\* a held call read INITIATED and leaves it, and a delivery that reads
\* INITIATED and is not classified held goes on to funding.
C18_RejectedCallChangesNothing ==
  [][/\ \A t \in Txns :
          Rejection(AccountOf(t)) = "" /\ Lookup(AccountOf(t)) = t
     /\ \A h \in Hooks :
          /\ (hook'[h] # hook[h]
                /\ (hook[h].result \in Unfunded \/ hook'[h].result \in Unfunded))
               => UNCHANGED <<db_vars, redis_pool_vars, row_lock, next_pool_id>>
          /\ (hook[h].result \in Unfunded /\ hook'[h] # hook[h])
               => hook'[h].pc = "idle"
          /\ (hook[h].pc = "idle" /\ hook'[h].result \in {"400", "404"})
               => hook'[h].txn = NoId
          /\ (hook[h].pc = "idle" /\ hook'[h].result = "held")
               => /\ txns[hook'[h].txn].status = INITIATED
                  /\ hook'[h].obj.status = INITIATED
                  /\ ~IsDirty(hook'[h].obj)
          /\ (hook[h].pc = "idle" /\ hook'[h].pc # "idle"
                /\ hook'[h].txn # NoId
                /\ txns[hook'[h].txn].status = INITIATED
                /\ ClassifyPayment(txns[hook'[h].txn].source_amount,
                                   txns[hook'[h].txn].fee_amount,
                                   hook'[h].paid) # "held")
               => hook'[h].result \notin Unfunded /\ hook'[h].pc = "flush"]_vars

\* a call with an unusable account number is being turned away while a
\* transaction whose first payment was held is FUNDED, with its pool row,
\* by a later delivery
C18_Witness ==
  \E h \in Hooks, t \in Txns :
    /\ hook[h].pc = "raise"
    /\ [kind |-> "status", transaction_id |-> t, text |-> "underpaid"] \in sent
    /\ txns[t].status = FUNDED
    /\ RowsOf(pool_rows, t) # {}

\* ------------------------------------------- payment classification alone
\* source_amount and fee_amount of the transaction paid for, in hundredths:
\* 1,000,000.00 at the 2 % tier, and 15,000.00 and 100,000.00 with the
\* minimum fee of 5,000.00
Dues == {<<100000000, 2000000>>, <<1500000, 500000>>, <<10000000, 500000>>}

\* paid amounts around the limits of an amount due e
PaidAround(e) ==
  {e - AMOUNT_TOLERANCE_NGN - 1, e - AMOUNT_TOLERANCE_NGN, e,
   e + AMOUNT_TOLERANCE_NGN, e + AMOUNT_TOLERANCE_NGN + 1,
   (e \div 100) * MIN_ACCEPT_RATIO, (e \div 100) * MIN_ACCEPT_RATIO - 1}

\* what the payer sends: amounts around the limits of each amount due,
\* 989,400.00, and 19,500.06 and 19,500.02, which scale 15,000.00 to a
\* half of a hundredth
PaidAmounts ==
  UNION {PaidAround(d[1] + d[2]) : d \in Dues} \cup {98940000, 1950006, 1950002}

InitPay ==
  /\ \E d \in Dues :
       txns = [t \in Txns |->
                 IF t = 1
                 THEN [InitTxn(t) EXCEPT !.source_amount = d[1],
                                         !.fee_amount = d[2]]
                 ELSE InitTxn(t)]
  /\ InitSvc
  /\ now = 0
  /\ ticks = 0
  /\ pool_rows = {}
  /\ matches = <<>>
  /\ row_lock = [t \in Txns |-> NoId]
  /\ pool_index = [d \in Directions |-> <<>>]
  /\ pool_entry = <<>>
  /\ pool_lock = NoId
  /\ next_pool_id = [t \in Txns |-> 0]
  /\ next_match_id = 0
  /\ eng = [p \in Procs |-> EngIdle]
  /\ hook = [h \in Hooks |-> HookIdle]
  /\ sweep = SweepIdle
  /\ cancel = CancelIdle
  /\ sent = {}
  /\ calls = [cycle |-> 0, payment |-> 0, cancel |-> 0]

\* a delivery for transaction 1 with any of the paid amounts
Pay(h, paid) == Receive(h, 1, paid)

NextPay ==
  \/ \E h \in Hooks : \E paid \in PaidAmounts : Pay(h, paid)
  \/ \E h \in Hooks : HookAddToPool(h)
  \/ \E h \in Hooks : HookCommit(h)

SpecPay == InitPay /\ [][NextPay]_vars

\* the amount due that a delivery reads
ExpectedOf(t) == txns[t].source_amount + txns[t].fee_amount

\* a delivery read INITIATED and was classified in this step
Classified(h) ==
  /\ hook[h].pc = "idle"
  /\ hook'[h].pc # "idle"
  /\ hook'[h].txn # NoId
  /\ txns[hook'[h].txn].status = INITIATED

\* C19: for every paid amount and amount due e > 0 the classification is
\* one of the four, decided in this order: within 100.00 of e is exact;
\* otherwise more than e is overpayment; otherwise at least 95 % of e is
\* adjusted; otherwise held. A held delivery does not go on to the FUNDED
\* transition and its session changes no transaction.
C19_ClassificationOrder ==
  [][\A h \in Hooks :
       /\ Classified(h)
            => LET e == ExpectedOf(hook'[h].txn)
                   paid == hook'[h].paid
                   c == hook'[h].classification
                   near == Abs(paid - e) <= AMOUNT_TOLERANCE_NGN
               IN /\ e > 0
                  /\ c \in {"exact", "overpayment", "adjusted", "held"}
                  /\ near => c = "exact"
                  /\ (~near /\ paid > e) => c = "overpayment"
                  /\ (~near /\ paid <= e /\ 20 * paid >= 19 * e)
                       => c = "adjusted"
                  /\ (~near /\ paid <= e /\ 20 * paid < 19 * e)
                       => /\ c = "held"
                          /\ hook'[h].pc = "commit"
                          /\ hook'[h].result = "held"
                          /\ hook'[h].obj.status = INITIATED
                  /\ c # "held"
                       => /\ hook'[h].pc = "flush"
                          /\ hook'[h].obj.status = FUNDED
       /\ (hook[h].classification = "held" /\ hook'[h] # hook[h])
            => UNCHANGED <<db_vars, redis_pool_vars>>]_vars

\* a payment short of the amount due by no more than 100.00 is being
\* funded as exact, with the amounts it was created with
C19_Witness ==
  \E h \in Hooks :
    /\ hook[h].pc = "flush"
    /\ hook[h].classification = "exact"
    /\ hook[h].paid < ExpectedOf(hook[h].txn)
    /\ hook[h].obj.source_amount = txns[hook[h].txn].source_amount

\* (x * paid / expected) rounded to hundredths, half up
HalfUp(x, paid, expected) ==
  LET d == MulDiv(x, paid, expected)
  IN IF 2 * d.r >= expected THEN d.q + 1 ELSE d.q

\* C20: an adjusted payment replaces source_amount and fee_amount by their
\* value times paid / expected rounded to hundredths half up (1,000,000.00
\* and 20,000.00 paid with 989,400.00 become 970,000.00 and 19,400.00);
\* exact and overpayment leave both as they are; the pool entry and the
\* pool row store the source_amount so decided, which is committed.
C20_AdjustedAmountsHalfUp ==
  [][\A h \in Hooks :
       /\ (Classified(h) /\ hook'[h].classification = "adjusted")
            => LET t == hook'[h].txn
               IN /\ hook'[h].obj.source_amount =
                       HalfUp(txns[t].source_amount, hook'[h].paid, ExpectedOf(t))
                  /\ hook'[h].obj.fee_amount =
                       HalfUp(txns[t].fee_amount, hook'[h].paid, ExpectedOf(t))
                  /\ (ExpectedOf(t) = 102000000 /\ hook'[h].paid = 98940000)
                       => /\ hook'[h].obj.source_amount = 97000000
                          /\ hook'[h].obj.fee_amount = 1940000
       /\ (Classified(h) /\ hook'[h].classification \in {"exact", "overpayment"})
            => /\ hook'[h].obj.source_amount = txns[hook'[h].txn].source_amount
               /\ hook'[h].obj.fee_amount = txns[hook'[h].txn].fee_amount
       /\ (hook[h].pc = "flush" /\ hook'[h].pc = "commit")
            => pool_entry'[hook'[h].pool_entry_id].source_amount
                 = hook[h].obj.source_amount
       /\ (hook[h].pc = "commit" /\ hook[h].result = "success"
             /\ hook'[h].pc = "idle")
            => /\ txns'[hook[h].txn].source_amount = hook[h].obj.source_amount
               /\ txns'[hook[h].txn].fee_amount = hook[h].obj.fee_amount
               /\ \E row \in pool_rows' :
                    /\ row.id = hook[h].pool_entry_id
                    /\ row.amount = hook[h].obj.source_amount]_vars

\* ------------------------------------------------------ transition_to alone
\* the engine, the webhook, the sweep and the cancel request at rest, the
\* database and the pool store empty
Idle ==
  /\ ticks = 0
  /\ pool_rows = {}
  /\ matches = <<>>
  /\ row_lock = [t \in Txns |-> NoId]
  /\ pool_index = [d \in Directions |-> <<>>]
  /\ pool_entry = <<>>
  /\ pool_lock = NoId
  /\ next_pool_id = [t \in Txns |-> 0]
  /\ next_match_id = 0
  /\ eng = [p \in Procs |-> EngIdle]
  /\ hook = [h \in Hooks |-> HookIdle]
  /\ sweep = SweepIdle
  /\ cancel = CancelIdle
  /\ sent = {}
  /\ calls = [cycle |-> 0, payment |-> 0, cancel |-> 0]

\* everything but the clock and the transactions, at rest
Quiet == InitSvc /\ Idle

\* the lifecycle timestamps a row may hold before the call
Stamps == {NoTime, 0}

\* transaction 1 in any status with any timestamps, at hour 1
InitFsm ==
  /\ Quiet
  /\ now = 1
  /\ \E s \in TransactionStatus : \E f, m, d \in Stamps :
       txns = [t \in Txns |->
                 IF t = 1
                 THEN [InitTxn(t) EXCEPT !.status = s, !.funded_at = f,
                                         !.matched_at = m, !.settled_at = d]
                 ELSE InitTxn(t)]

\* txn.transition_to(new_status) on transaction 1; ValueError leaves the
\* object as it was
Transit(new_status) ==
  /\ txns' = [txns EXCEPT ![1] = transition_to(@, new_status, now).txn]
  /\ fsm' = [txn |-> 1, new_status |-> new_status,
             ok |-> transition_to(txns[1], new_status, now).ok]
  /\ UNCHANGED <<now, ticks, pool_rows, matches, row_lock, redis_pool_vars,
                 pool_lock, next_pool_id, next_match_id, eng, hook, sweep,
                 cancel, sent, calls, matcher, rate_vars, trader_vars, aux_vars>>

NextFsm == \E new_status \in TransactionStatus : Transit(new_status)

SpecFsm == InitFsm /\ [][NextFsm]_vars

\* C21: transition_to to a status that the table row of the present status
\* does not hold fails and leaves status, funded_at, matched_at and
\* settled_at as they were; otherwise it succeeds, the status is the new
\* one, funded_at is set to the present time on FUNDED and untouched
\* otherwise, matched_at likewise on MATCHED and PARTIAL_MATCHED, and
\* settled_at on COMPLETED.
C21_TransitionTo ==
  [][(fsm'.txn # NoId /\ (fsm' # fsm \/ txns' # txns))
       => LET old == txns[fsm'.txn]
              new == txns'[fsm'.txn]
              s == fsm'.new_status
          IN /\ s \notin VALID_TRANSITIONS[old.status]
                  => /\ ~fsm'.ok
                     /\ new.status = old.status
                     /\ new.funded_at = old.funded_at
                     /\ new.matched_at = old.matched_at
                     /\ new.settled_at = old.settled_at
             /\ s \in VALID_TRANSITIONS[old.status]
                  => /\ fsm'.ok
                     /\ new.status = s
                     /\ new.funded_at =
                          IF s = FUNDED THEN now ELSE old.funded_at
                     /\ new.matched_at =
                          IF s \in {MATCHED, PARTIAL_MATCHED} THEN now
                          ELSE old.matched_at
                     /\ new.settled_at =
                          IF s = COMPLETED THEN now ELSE old.settled_at]_vars

\* a transaction was completed at hour 1, settled_at set and the stamps it
\* started with kept, and a further transition_to has failed
C21_Witness ==
  /\ fsm.txn = 1
  /\ ~fsm.ok
  /\ txns[1].status = COMPLETED
  /\ txns[1].settled_at = 1
  /\ txns[1].funded_at = 0
  /\ txns[1].matched_at = NoTime

\* --------------------------------------------- the matching functions alone
\* every list of at most n amounts of S
Lists(S, n) == UNION {[1 .. k -> S] : k \in 0 .. n}

\* amounts around the limits: 0.5 % and 0.6 % of 1000, 10 % and 9 % of 1000,
\* 95 % and 94.99 % of 10000
AmountsA == {0, 1000, 10000}
AmountsB == {0, 90, 100, 995, 1005, 1006, 2000, 4499, 4500, 5000}

\* many small entries behind an optional first one
Ladders ==
  {lead \o [k \in 1 .. n |-> leg] :
     lead \in {<<>>, <<0>>, <<5000>>}, n \in MaxLadder - 2 .. MaxLadder,
     leg \in {90, 95, 100}}

\* a snapshot list holding the amounts in priority order
MakePool(amounts, direction, base) ==
  [i \in 1 .. Len(amounts) |->
     [id |-> base + i, transaction_id |-> base + i,
      source_amount |-> amounts[i], direction |-> direction,
      entered_pool_at |-> 0, expires_at |-> POOL_EXPIRY_HOURS,
      score |-> Len(amounts) - i]]

InitMatch ==
  /\ Idle
  /\ InitAux
  /\ now = 0
  /\ txns = [t \in Txns |-> InitTxn(t)]
  /\ fsm = NoTransit
  /\ InitRate
  /\ InitTrader
  /\ \E a \in Lists(AmountsA, MaxPoolA) :
       \E b \in Lists(AmountsB, MaxPoolB) \cup Ladders :
         matcher = [NoRun EXCEPT !.pool_a = MakePool(a, BUY, 0),
                                 !.pool_b = MakePool(b, SELL, 100)]

RunExact ==
  /\ matcher' = [matcher EXCEPT
                   !.fn = "exact",
                   !.out = run_exact_matching(matcher.pool_a, matcher.pool_b)]
  /\ UNCHANGED <<core_vars, fsm, rate_vars, trader_vars, aux_vars>>

RunMulti ==
  /\ matcher' = [matcher EXCEPT
                   !.fn = "multi",
                   !.out = run_multi_matching(matcher.pool_a, matcher.pool_b)]
  /\ UNCHANGED <<core_vars, fsm, rate_vars, trader_vars, aux_vars>>

RunPartial ==
  /\ matcher' = [matcher EXCEPT
                   !.fn = "partial",
                   !.out = run_partial_matching(matcher.pool_a, matcher.pool_b)]
  /\ UNCHANGED <<core_vars, fsm, rate_vars, trader_vars, aux_vars>>

NextMatch == RunExact \/ RunMulti \/ RunPartial

SpecMatch == InitMatch /\ [][NextMatch]_vars

\* position of the entry with the given id in a list
Pos(pool, id) == CHOOSE i \in 1 .. Len(pool) : pool[i].id = id

\* the pair matches of out in which buy i and sell j stand
BuyAt(pa, out, k) == Pos(pa, out[k].pool_a_entry.id)
SellAt(pb, out, k) == Pos(pb, out[k].pool_b_entries[1].id)

\* sell j was paired with a buy standing before buy i
TakenBefore(pa, pb, out, j, i) ==
  \E k \in 1 .. Len(out) : SellAt(pb, out, k) = j /\ BuyAt(pa, out, k) < i

\* both amounts positive and |a - b| / a * 100 <= 0.5
ExactFits(a, b) ==
  /\ a > 0
  /\ b > 0
  /\ 200 * (IF a >= b THEN a - b ELSE b - a) <= a

\* the sells buy i may take: fitting and not taken by an earlier buy
ExactOpen(pa, pb, out, i) ==
  {j \in 1 .. Len(pb) :
     /\ ExactFits(_amount(pa[i]), _amount(pb[j]))
     /\ ~TakenBefore(pa, pb, out, j, i)}

\* the matches are pairs of entries of the two lists, in buy order, no
\* sell twice
PairsOf(pa, pb, out, type) ==
  /\ \A k \in 1 .. Len(out) :
       /\ out[k].type = type
       /\ Len(out[k].pool_b_entries) = 1
       /\ \E i \in 1 .. Len(pa) : pa[i] = out[k].pool_a_entry
       /\ \E j \in 1 .. Len(pb) : pb[j] = out[k].pool_b_entries[1]
       /\ out[k].matched_amount =
            IF _amount(out[k].pool_a_entry) <= _amount(out[k].pool_b_entries[1])
            THEN _amount(out[k].pool_a_entry)
            ELSE _amount(out[k].pool_b_entries[1])
  /\ \A k, l \in 1 .. Len(out) :
       k < l => /\ BuyAt(pa, out, k) < BuyAt(pa, out, l)
                /\ SellAt(pb, out, k) # SellAt(pb, out, l)

ExactRight(pa, pb, out) ==
  /\ PairsOf(pa, pb, out, "exact")
  /\ \A i \in 1 .. Len(pa) :
       IF ExactOpen(pa, pb, out, i) = {}
       THEN \A k \in 1 .. Len(out) : BuyAt(pa, out, k) # i
       ELSE \E k \in 1 .. Len(out) :
              /\ BuyAt(pa, out, k) = i
              /\ SellAt(pb, out, k) \in ExactOpen(pa, pb, out, i)
              /\ \A j \in ExactOpen(pa, pb, out, i) : SellAt(pb, out, k) <= j

\* C22: run_exact_matching pairs each buy entry, in list order, with the
\* first sell entry not yet taken whose amount differs from the buy amount
\* by at most 0.5 % of the buy amount; the matched amount is the smaller of
\* the two, no entry is used twice and entries with a non-positive amount
\* are passed over.
C22_ExactMatching ==
  matcher.fn = "exact"
    => ExactRight(matcher.pool_a, matcher.pool_b, matcher.out)

\* buy 1000 met sells 1006, 1005 in this order: 0.6 % is passed over and
\* the sell at exactly 0.5 % is taken, for 1000
C22_Witness ==
  /\ matcher.fn = "exact"
  /\ Len(matcher.pool_a) >= 1
  /\ Len(matcher.pool_b) >= 2
  /\ matcher.pool_a[1].source_amount = 1000
  /\ matcher.pool_b[1].source_amount = 1006
  /\ matcher.pool_b[2].source_amount = 1005
  /\ Len(matcher.out) >= 1
  /\ matcher.out[1].pool_b_entries[1].id = matcher.pool_b[2].id
  /\ matcher.out[1].matched_amount = 1000

\* both amounts positive and the smaller at least 10 % of the larger
PartialFits(a, b) ==
  /\ a > 0
  /\ b > 0
  /\ 10 * (IF a <= b THEN a ELSE b) >= (IF a <= b THEN b ELSE a)

PartialOpen(pa, pb, out, i) ==
  {j \in 1 .. Len(pb) :
     /\ PartialFits(_amount(pa[i]), _amount(pb[j]))
     /\ ~TakenBefore(pa, pb, out, j, i)}

PartialRight(pa, pb, out) ==
  /\ PairsOf(pa, pb, out, "partial")
  /\ \A k \in 1 .. Len(out) :
       /\ out[k].matched_amount + out[k].pool_a_remaining
            = _amount(out[k].pool_a_entry)
       /\ out[k].matched_amount + out[k].pool_b_remaining
            = _amount(out[k].pool_b_entries[1])
       /\ out[k].pool_a_remaining >= 0
       /\ out[k].pool_b_remaining >= 0
       /\ out[k].pool_a_remaining = 0 \/ out[k].pool_b_remaining = 0
  /\ \A i \in 1 .. Len(pa) :
       IF PartialOpen(pa, pb, out, i) = {}
       THEN \A k \in 1 .. Len(out) : BuyAt(pa, out, k) # i
       ELSE \E k \in 1 .. Len(out) :
              /\ BuyAt(pa, out, k) = i
              /\ SellAt(pb, out, k) \in PartialOpen(pa, pb, out, i)
              /\ \A j \in PartialOpen(pa, pb, out, i) : SellAt(pb, out, k) <= j

\* C24: run_partial_matching pairs each buy entry, in list order, with the
\* first sell entry not yet taken whose overlap min(a, b) is at least 10 %
\* of the larger amount; the matched amount m is min(a, b), the remainders
\* are a - m and b - m, so matched plus remainder is the original amount on
\* each side and one of the two remainders is zero.
C24_PartialMatching ==
  matcher.fn = "partial"
    => PartialRight(matcher.pool_a, matcher.pool_b, matcher.out)

\* buy 1000 met sells 90, 100 in this order: 9 % is passed over and the
\* sell at exactly 10 % is taken, leaving 900 on the buy side
C24_Witness ==
  /\ matcher.fn = "partial"
  /\ Len(matcher.pool_a) >= 1
  /\ Len(matcher.pool_b) >= 2
  /\ matcher.pool_a[1].source_amount = 1000
  /\ matcher.pool_b[1].source_amount = 90
  /\ matcher.pool_b[2].source_amount = 100
  /\ Len(matcher.out) >= 1
  /\ matcher.out[1].pool_b_entries[1].id = matcher.pool_b[2].id
  /\ matcher.out[1].matched_amount = 100
  /\ matcher.out[1].pool_a_remaining = 900
  /\ matcher.out[1].pool_b_remaining = 0

\* sum of the amounts standing at the positions S of a list
RECURSIVE Total(_, _)
Total(pool, S) ==
  IF S = {} THEN 0
  ELSE LET j == CHOOSE x \in S : TRUE
       IN _amount(pool[j]) + Total(pool, S \ {j})

\* the peers a target of amount t may take: not consumed, positive and
\* strictly smaller than the target
Eligible(t, peers, consumed) ==
  {j \in 1 .. Len(peers) :
     j \notin consumed /\ _amount(peers[j]) > 0 /\ _amount(peers[j]) < t}

Earlier(S, j) == {x \in S : x < j}

\* the first eligible peers, accumulated until the target is assembled or
\* ten are taken
FirstLegs(t, peers, consumed) ==
  {j \in Eligible(t, peers, consumed) :
     /\ Cardinality(Earlier(Eligible(t, peers, consumed), j)) < 10
     /\ Total(peers, Earlier(Eligible(t, peers, consumed), j)) < t}

\* the attempt for a target of amount t is to be emitted
Fills(t, peers, consumed) ==
  /\ FirstLegs(t, peers, consumed) # {}
  /\ 20 * Total(peers, FirstLegs(t, peers, consumed)) >= 19 * t

\* match k has its target in the first list
TargetInA(pa, out, k) == \E i \in 1 .. Len(pa) : pa[i] = out[k].pool_a_entry

TargetAt(pa, pb, out, k) ==
  IF TargetInA(pa, out, k) THEN Pos(pa, out[k].pool_a_entry.id)
  ELSE Pos(pb, out[k].pool_a_entry.id)

\* positions of the legs of match k in the list they come from
LegsAt(peers, out, k) ==
  {Pos(peers, out[k].pool_b_entries[l].id) : l \in 1 .. Len(out[k].pool_b_entries)}

\* positions of pool_b taken as legs by the first-direction matches whose
\* target stands before position i
LegsOfA(pa, pb, out, i) ==
  UNION {LegsAt(pb, out, l) :
           l \in {x \in 1 .. Len(out) :
                    TargetInA(pa, out, x) /\ TargetAt(pa, pb, out, x) < i}}

\* positions of pool_a consumed when the second direction reaches the
\* target at position j of pool_b: first-direction targets and the legs of
\* earlier second-direction matches
ConsumedOfA(pa, pb, out, j) ==
  {TargetAt(pa, pb, out, x) : x \in {y \in 1 .. Len(out) : TargetInA(pa, out, y)}}
    \cup UNION {LegsAt(pa, out, l) :
                  l \in {x \in 1 .. Len(out) :
                           ~TargetInA(pa, out, x) /\ TargetAt(pa, pb, out, x) < j}}

\* match k is what the attempt for its target gives
MultiMatchRight(target, peers, consumed, m) ==
  /\ m.type = "multi"
  /\ Len(m.pool_b_entries) \in 1 .. 10
  /\ \A l \in 1 .. Len(m.pool_b_entries) :
       /\ \E j \in 1 .. Len(peers) : peers[j] = m.pool_b_entries[l]
       /\ _amount(m.pool_b_entries[l]) < _amount(target)
       /\ \A l2 \in 1 .. Len(m.pool_b_entries) :
            l < l2 => Pos(peers, m.pool_b_entries[l].id)
                        < Pos(peers, m.pool_b_entries[l2].id)
  /\ {Pos(peers, m.pool_b_entries[l].id) : l \in 1 .. Len(m.pool_b_entries)}
       = FirstLegs(_amount(target), peers, consumed)
  /\ Fills(_amount(target), peers, consumed)
  /\ m.matched_amount =
       IF Total(peers, FirstLegs(_amount(target), peers, consumed))
            <= _amount(target)
       THEN Total(peers, FirstLegs(_amount(target), peers, consumed))
       ELSE _amount(target)

MultiRight(pa, pb, out) ==
  /\ \A k \in 1 .. Len(out) :
       IF TargetInA(pa, out, k)
       THEN MultiMatchRight(out[k].pool_a_entry, pb,
                            LegsOfA(pa, pb, out, TargetAt(pa, pb, out, k)),
                            out[k])
       ELSE /\ \E j \in 1 .. Len(pb) : pb[j] = out[k].pool_a_entry
            /\ TargetAt(pa, pb, out, k) \notin LegsOfA(pa, pb, out, Len(pa) + 1)
            /\ MultiMatchRight(out[k].pool_a_entry, pa,
                               ConsumedOfA(pa, pb, out, TargetAt(pa, pb, out, k)),
                               out[k])
  /\ \A k, l \in 1 .. Len(out) :
       k < l => /\ TargetInA(pa, out, l) => TargetInA(pa, out, k)
                /\ TargetInA(pa, out, k) = TargetInA(pa, out, l)
                     => TargetAt(pa, pb, out, k) < TargetAt(pa, pb, out, l)
  /\ \A i \in 1 .. Len(pa) :
       (\A k \in 1 .. Len(out) :
          ~(TargetInA(pa, out, k) /\ TargetAt(pa, pb, out, k) = i))
         => ~Fills(_amount(pa[i]), pb, LegsOfA(pa, pb, out, i))
  /\ \A j \in 1 .. Len(pb) :
       (/\ j \notin LegsOfA(pa, pb, out, Len(pa) + 1)
        /\ \A k \in 1 .. Len(out) :
             ~(~TargetInA(pa, out, k) /\ TargetAt(pa, pb, out, k) = j))
         => ~Fills(_amount(pb[j]), pa, ConsumedOfA(pa, pb, out, j))

\* C23: every multi match has between 1 and 10 legs, each leg strictly
\* smaller than the target; the legs are the first eligible peers not yet
\* consumed, in list order, accumulated until the target is assembled or
\* ten are taken; the match is emitted exactly when the assembled amount is
\* at least 95 % of the target, for min(assembled, target); an attempt
\* that is rejected consumes no entry.
C23_MultiMatching ==
  matcher.fn = "multi"
    => MultiRight(matcher.pool_a, matcher.pool_b, matcher.out)

\* target 1000 met eleven peers of 95: ten are taken, for exactly 95 %
C23_Witness ==
  /\ matcher.fn = "multi"
  /\ Len(matcher.pool_b) = 11
  /\ \A j \in 1 .. 11 : matcher.pool_b[j].source_amount = 95
  /\ Len(matcher.out) >= 1
  /\ matcher.out[1].pool_a_entry.source_amount = 1000
  /\ Len(matcher.out[1].pool_b_entries) = 10
  /\ matcher.out[1].matched_amount = 950

\* a target whose first ten peers assemble less than 95 % is not matched
\* although an eleventh peer stands behind them, and the peers stay free:
\* the second target of the same amount finds no match either
C23_RejectedWitness ==
  /\ matcher.fn = "multi"
  /\ Len(matcher.pool_b) = 11
  /\ \A j \in 1 .. 11 : matcher.pool_b[j].source_amount = 90
  /\ Len(matcher.pool_a) = 2
  /\ matcher.pool_a[1].source_amount = 1000
  /\ matcher.pool_a[2].source_amount = 1000
  /\ matcher.out = <<>>

\* ------------------------------------------------------------ rate service
\* amounts are hundredths of a currency unit, USD rates hundredths, the
\* NGN/CNY cross rate ten-thousandths, fee percentages hundredths of a
\* percent, times seconds

\* (s * p / e) rounded ROUND_HALF_UP to an integer
QuantizeHalfUp(s, p, e) ==
  IF 2 * MulDiv(s, p, e).r >= e THEN MulDiv(s, p, e).q + 1
  ELSE MulDiv(s, p, e).q

SetMax(S) == CHOOSE x \in S : \A y \in S : x >= y

\* FEE_TIERS, highest volume first: USD volume in hundredths, percentage
FEE_TIERS ==
  <<[min_volume_usd |-> 50000000, fee_percent |-> 75],
    [min_volume_usd |-> 20000000, fee_percent |-> 100],
    [min_volume_usd |-> 5000000, fee_percent |-> 150],
    [min_volume_usd |-> 0, fee_percent |-> 200]>>

get_fee_tier(monthly_volume_usd) ==
  IF \E k \in 1 .. Len(FEE_TIERS) : monthly_volume_usd >= FEE_TIERS[k].min_volume_usd
  THEN FEE_TIERS[SetMin({k \in 1 .. Len(FEE_TIERS) :
                          monthly_volume_usd >= FEE_TIERS[k].min_volume_usd})].fee_percent
  ELSE 200

\* a breaker that never reads as open
is_circuit_breaker_open_never(flag, t) == FALSE

\* GET circuit_breaker:rates: the key set with a TTL is gone when the TTL
\* has run out
is_circuit_breaker_open(flag, t) == flag # NoTime /\ t < flag

\* a breaker that trips at the threshold
_check_circuit_breaker_at_threshold(history, flag, t) ==
  IF Cardinality(DOMAIN history) < 2 THEN flag
  ELSE IF SetMin(DOMAIN history) <= 0 THEN flag
  ELSE IF (SetMax(DOMAIN history) - SetMin(DOMAIN history)) * 100
            >= CIRCUIT_BREAKER_THRESHOLD * SetMin(DOMAIN history)
  THEN t + CIRCUIT_BREAKER_COOLDOWN
  ELSE flag

\* the expiry of the breaker key after the check at time t
_check_circuit_breaker(history, flag, t) ==
  IF Cardinality(DOMAIN history) < 2 THEN flag
  ELSE IF SetMin(DOMAIN history) <= 0 THEN flag
  ELSE IF (SetMax(DOMAIN history) - SetMin(DOMAIN history)) * 100
            > CIRCUIT_BREAKER_THRESHOLD * SetMin(DOMAIN history)
  THEN t + CIRCUIT_BREAKER_COOLDOWN
  ELSE flag

\* ZADD with the rate string as member, then ZREMRANGEBYSCORE -inf cutoff
Recorded(history, rate, ts) ==
  [r \in {x \in DOMAIN history \cup {rate} :
            x = rate \/ history[x] > ts - CIRCUIT_BREAKER_WINDOW} |->
     IF r = rate THEN ts ELSE history[r]]

\* the Redis keys of the service as one record
RateStore ==
  [cache |-> rate_cache, history |-> rate_history, breaker |-> breaker,
   fetches |-> fetches]

_record_rate(st, rate, ts) ==
  [st EXCEPT !.history = Recorded(st.history, rate, ts),
             !.breaker = _check_circuit_breaker(
                            Recorded(st.history, rate, ts), st.breaker, ts)]

\* the rates dict built from a provider answer
FreshRates(raw, t) ==
  [ngn_per_usd |-> raw.NGN, cny_per_usd |-> raw.CNY,
   ngn_per_cny |-> QuantizeHalfUp(raw.NGN, 10000, raw.CNY),
   expires |-> t + FX_RATE_CACHE_TTL_SECONDS]

CacheLive(st, t) == st.cache.expires # NoTime /\ t < st.cache.expires

\* get_rates at time t; raw is what the provider would answer
get_rates(st, t, raw) ==
  IF CacheLive(st, t) THEN [st |-> st, rates |-> st.cache]
  ELSE [st |-> _record_rate([st EXCEPT !.cache = FreshRates(raw, t),
                                        !.fetches = @ + 1],
                            FreshRates(raw, t).ngn_per_cny, t),
        rates |-> FreshRates(raw, t)]

\* the quote dict; tradeflow_rate and savings_vs_bank are derived for
\* display from the fields kept here
Quote(source, target, source_amount, target_amount, rate, fee_pct, fee_amount, t) ==
  [source_currency |-> source, target_currency |-> target,
   source_amount |-> source_amount, target_amount |-> target_amount,
   mid_market_rate |-> rate, fee_percentage |-> fee_pct,
   fee_amount |-> fee_amount, total_cost |-> source_amount + fee_amount,
   quote_valid_until |-> t + FX_QUOTE_TTL_SECONDS]

\* the fee: the tier percentage of the amount, at least min_fee
FeeOf(source_amount, fee_pct, min_fee) ==
  Max(QuantizeHalfUp(source_amount, fee_pct, 10000), min_fee)

\* generate_quote after the rates are known
QuoteAt(st, t, rate, source, target, source_amount, fee_pct) ==
  IF source = "NGN" /\ target = "CNY"
  THEN [st |-> st, status |-> "ok",
        quote |-> Quote(source, target, source_amount,
                        QuantizeHalfUp(source_amount, 10000, rate), rate, fee_pct,
                        FeeOf(source_amount, fee_pct, MIN_FEE_NGN), t)]
  ELSE IF source = "CNY" /\ target = "NGN"
  THEN [st |-> st, status |-> "ok",
        quote |-> Quote(source, target, source_amount,
                        QuantizeHalfUp(source_amount, rate, 10000), rate, fee_pct,
                        FeeOf(source_amount, fee_pct,
                              QuantizeHalfUp(MIN_FEE_NGN, 10000, rate)), t)]
  ELSE [st |-> st, status |-> "ValueError", quote |-> <<>>]

generate_quote(st, t, raw, source, target, source_amount, monthly_volume_usd) ==
  IF is_circuit_breaker_open(st.breaker, t)
  THEN [st |-> st, status |-> "CircuitBreakerOpen", quote |-> <<>>]
  ELSE QuoteAt(get_rates(st, t, raw).st, t,
               get_rates(st, t, raw).rates.ngn_per_cny,
               source, target, source_amount, get_fee_tier(monthly_volume_usd))

\* what the provider may answer: cross rates 200.00, 205.99, 206.00, 210.00
ProviderRates ==
  {[NGN |-> 145000, CNY |-> 725], [NGN |-> 102995, CNY |-> 500],
   [NGN |-> 149350, CNY |-> 725], [NGN |-> 152250, CNY |-> 725]}

\* the instants at which a request arrives
RateTimes == {0, 60, 120, 960, 3600, 3660}

Pairs == {<<"NGN", "CNY">>, <<"CNY", "NGN">>, <<"USD", "EUR">>}

\* amounts asked of the quote endpoint (gt=0) and in the WhatsApp flow
\* (at least MIN_NGN, MIN_CNY)
ApiAmounts(source) == IF source = "NGN" THEN {1, 30000000} ELSE {1, 1000000}
FlowAmounts(source) == IF source = "NGN" THEN {MIN_NGN} ELSE {MIN_CNY}

InitRates ==
  /\ Idle
  /\ InitAux
  /\ now = 0
  /\ txns = [t \in Txns |-> InitTxn(t)]
  /\ fsm = NoTransit
  /\ matcher = NoRun
  /\ InitRate
  /\ InitTrader

\* the store after a call, and what the caller was told
Answer(st, call, status, quote) ==
  /\ st.fetches <= MaxFetches
  /\ rate_cache' = st.cache
  /\ rate_history' = st.history
  /\ breaker' = st.breaker
  /\ fetches' = st.fetches
  /\ rate_reply' = [call |-> call, status |-> status, quote |-> quote]
  /\ quotes' = IF status = "ok" /\ quote # <<>> THEN quotes \cup {quote}
               ELSE quotes
  /\ Cardinality(quotes') <= MaxQuotes
  /\ UNCHANGED <<core_vars, fsm, matcher, rate_time, trader_vars, aux_vars>>

\* time passes; SETEX keys whose TTL has run out are gone
RateTick(t) ==
  /\ t > rate_time
  /\ rate_time' = t
  /\ quotes' = {q \in quotes : q.quote_valid_until > t}
  /\ UNCHANGED <<core_vars, fsm, matcher, rate_cache, rate_history, breaker,
                 fetches, rate_reply, trader_vars, aux_vars>>

\* _show_rates of the WhatsApp menu: get_rates with no breaker check
ShowRates(raw) ==
  /\ raw \in ProviderRates
  /\ Answer(get_rates(RateStore, rate_time, raw).st, "get_rates", "ok", <<>>)

\* GET /rates/current
get_current_rates(raw) ==
  IF is_circuit_breaker_open(breaker, rate_time)
  THEN Answer(RateStore, "current", "503", <<>>)
  ELSE Answer(get_rates(RateStore, rate_time, raw).st, "current", "ok", <<>>)

\* the outcome of generate_quote as the endpoint reports it
Reported(r) ==
  Answer(r.st, "quote",
         IF r.status = "CircuitBreakerOpen" THEN "503"
         ELSE IF r.status = "ValueError" THEN "400" ELSE "ok",
         r.quote)

\* GET /rates/quote: the pair is validated, get_rates is called for the
\* fee tier, then generate_quote
get_quote(raw, source, target, amount) ==
  IF <<source, target>> \notin {<<"NGN", "CNY">>, <<"CNY", "NGN">>}
  THEN Answer(RateStore, "quote", "400", <<>>)
  ELSE Reported(generate_quote(
         get_rates(RateStore, rate_time, raw).st, rate_time, raw,
         source, target, amount,
         ScaleQuantize(trader.monthly_used, 100,
                       get_rates(RateStore, rate_time, raw).rates.ngn_per_usd)))

FlowQuoted(r) == Answer(r.st, "generate_quote", r.status, r.quote)

\* the amount step of the WhatsApp payment flow: an amount of at least the
\* minimum goes to generate_quote with the default volume
FlowQuote(raw, source, target, amount) ==
  /\ amount >= (IF source = "NGN" THEN MIN_NGN ELSE MIN_CNY)
  /\ FlowQuoted(generate_quote(RateStore, rate_time, raw, source, target,
                               amount, 0))

NextRates ==
  \/ \E t \in RateTimes : RateTick(t)
  \/ \E raw \in ProviderRates : ShowRates(raw)
  \/ \E raw \in ProviderRates : get_current_rates(raw)
  \/ \E raw \in ProviderRates : \E pair \in Pairs :
       \E amount \in ApiAmounts(pair[1]) :
         get_quote(raw, pair[1], pair[2], amount)
  \/ \E raw \in ProviderRates : \E pair \in Pairs \ {<<"USD", "EUR">>} :
       \E amount \in FlowAmounts(pair[1]) :
         FlowQuote(raw, pair[1], pair[2], amount)

SpecRates == InitRates /\ [][NextRates]_vars

\* the window moved by more than 3 %
Moved(w) ==
  \E lo, hi \in DOMAIN w :
    /\ \A x \in DOMAIN w : lo <= x /\ x <= hi
    /\ (hi - lo) * 100 > 3 * lo

\* C25: when a rate is recorded, the history keeps the rates younger than
\* one hour and drops those older, and the breaker flag is set, for 900
\* seconds from now, exactly when the window then holds at least two rates
\* and (max - min) / min * 100 is strictly greater than 3.
C25_BreakerOpens ==
  [][fetches' = fetches + 1
       => /\ rate_cache'.ngn_per_cny \in DOMAIN rate_history'
          /\ rate_history'[rate_cache'.ngn_per_cny] = rate_time
          /\ DOMAIN rate_history'
               \subseteq DOMAIN rate_history \cup {rate_cache'.ngn_per_cny}
          /\ \A x \in DOMAIN rate_history \ {rate_cache'.ngn_per_cny} :
               /\ rate_history[x] > rate_time - 3600
                    => x \in DOMAIN rate_history'
                       /\ rate_history'[x] = rate_history[x]
               /\ rate_history[x] < rate_time - 3600
                    => x \notin DOMAIN rate_history'
          /\ IF Cardinality(DOMAIN rate_history') >= 2 /\ Moved(rate_history')
             THEN breaker' = rate_time + 900
             ELSE breaker' = breaker]_vars

\* 200.00 then 210.00 a minute later: the breaker is open until 960
C25_Witness ==
  /\ rate_history = (2000000 :> 0) @@ (2100000 :> 60)
  /\ breaker = 960

\* 200.00 then 205.99 a minute later: no flag
C25_QuietWitness ==
  /\ rate_history = (2000000 :> 0) @@ (2059900 :> 60)
  /\ breaker = NoTime

\* C26: while the breaker flag is present, a generate_quote call fails
\* with CircuitBreakerOpen, fetches no rate and stores no quote, the quote
\* endpoint returns no quote, and the current-rates endpoint answers 503
\* without fetching rates.
C26_OpenBreakerBlocks ==
  [][(rate_time' = rate_time /\ breaker # NoTime /\ rate_time < breaker)
       => /\ rate_reply'.call = "generate_quote"
               => /\ rate_reply'.status = "CircuitBreakerOpen"
                  /\ fetches' = fetches
                  /\ rate_cache' = rate_cache
                  /\ rate_history' = rate_history
                  /\ quotes' = quotes
          /\ rate_reply'.call = "quote"
               => /\ rate_reply'.status \in {"503", "400"}
                  /\ quotes' = quotes
          /\ rate_reply'.call = "current"
               => /\ rate_reply'.status = "503"
                  /\ fetches' = fetches]_vars

\* generate_quote was refused while the flag was present and the cached
\* rates had run out, so that a call let through would have fetched
C26_Witness ==
  /\ rate_reply.call = "generate_quote"
  /\ rate_reply.status = "CircuitBreakerOpen"
  /\ breaker # NoTime
  /\ rate_time < breaker
  /\ rate_time >= rate_cache.expires
  /\ fetches = 2

\* the rates of the history younger than one hour
LiveRates == {x \in DOMAIN rate_history : rate_history[x] > rate_time - 3600}

\* C27: a movement that has opened the breaker does not open or extend it
\* again: when the flag has been set before and a rate is recorded that
\* lies within the rates the window already holds, the flag is not set
\* again, so quoting resumes 15 minutes after the flag was set.
C27_NoReopening ==
  [][(/\ fetches' = fetches + 1
      /\ breaker # NoTime
      /\ \E lo, hi \in LiveRates :
           lo <= rate_cache'.ngn_per_cny /\ rate_cache'.ngn_per_cny <= hi)
       => breaker' = breaker]_vars

\* C28: a quote returned by generate_quote has a positive target amount, a
\* total cost above the source amount and a validity ending after the call.
C28_QuoteAmounts ==
  [][(/\ rate_time' = rate_time
      /\ rate_reply'.call \in {"generate_quote", "quote"}
      /\ rate_reply'.status = "ok")
       => /\ rate_reply'.quote.target_amount > 0
          /\ rate_reply'.quote.total_cost > rate_reply'.quote.source_amount
          /\ rate_reply'.quote.quote_valid_until > rate_time]_vars

\* committed rows the sweep is to expire: INITIATED and created before the
\* cutoff
Stale ==
  {t \in Txns : /\ txns[t].status = INITIATED
                /\ txns[t].created_at < now - PAYMENT_EXPIRY_HOURS}

\* C29: a run of the expiry sweep turns to EXPIRED exactly the
\* transactions that are INITIATED and created before now minus
\* PAYMENT_EXPIRY_HOURS, in one database transaction, and changes no
\* transaction in another status or younger than the cutoff.
C29_SweepExpiresExactlyStale ==
  [][(sweep.pc = "commit" /\ sweep'.pc = "idle")
       => \A t \in Txns :
            IF t \in Stale
            THEN txns'[t] = [txns[t] EXCEPT !.status = EXPIRED]
            ELSE txns'[t] = txns[t]]_vars

\* ------------------------------------------------------- create_transaction
\* the mock provider: 1550.00 NGN and 7.25 CNY per USD
MockRates == [NGN |-> 155000, CNY |-> 725]

\* source amounts asked for: below the minimum, 1,000 USD and 3,000 USD
\* worth of NGN, 10,000 CNY
CreateAmounts(src) ==
  IF src = "NGN" THEN {100, 155000000, 465000000} ELSE {1000000}

\* the store after one quote was generated at second 0
Quoted == generate_quote(
            [cache |-> NoRate, history |-> <<>>, breaker |-> NoTime, fetches |-> 0],
            0, MockRates, "NGN", "CNY", 155000000, 0)

\* nothing has happened, or one quote has been generated
InitCreate ==
  /\ Idle
  /\ InitAux
  /\ now = 0
  /\ txns = [t \in Txns |-> InitTxn(t)]
  /\ fsm = NoTransit
  /\ matcher = NoRun
  /\ InitTrader
  /\ rate_time = 0
  /\ \/ InitRate
     \/ /\ rate_cache = Quoted.st.cache
        /\ rate_history = Quoted.st.history
        /\ breaker = Quoted.st.breaker
        /\ fetches = Quoted.st.fetches
        /\ quotes = {Quoted.quote}
        /\ rate_reply = [call |-> "generate_quote", status |-> "ok",
                         quote |-> Quoted.quote]

\* step 5: the source amount in USD
AmountUsd(src, source_amount, rates) ==
  IF src = "NGN" THEN QuantizeHalfUp(source_amount, 100, rates.ngn_per_usd)
  ELSE QuantizeHalfUp(source_amount, rates.ngn_per_cny, 100 * rates.ngn_per_usd)

exceeds_monthly_limit(monthly_used, monthly_limit, amount) ==
  monthly_used + amount > monthly_limit

\* step 7 without a quote: rate, fee and target amount computed afresh,
\* the fee tier taken from the USD amount
FreshTerms(src, tgt, source_amount, rates, amount_usd) ==
  QuoteAt(<<>>, 0, rates.ngn_per_cny, src, tgt, source_amount,
          get_fee_tier(amount_usd)).quote

\* step 8: the Transaction object
NewTxn(src, source_amount, terms, amount_usd) ==
  [source_currency |-> src, source_amount |-> source_amount,
   target_amount |-> terms.target_amount,
   exchange_rate |-> terms.mid_market_rate, fee_amount |-> terms.fee_amount,
   fee_percentage |-> terms.fee_percentage, status |-> INITIATED,
   amount_usd |-> amount_usd]

\* the answer 400 with its detail; nothing is pending
Refused(c, detail) ==
  create' = [create EXCEPT ![c] = [CreateIdle EXCEPT !.result = detail]]

\* a payload without quote_id, and a quote_id that was never issued
NoQuote == [quote_id |-> "none"]
UnknownQuote == [quote_id |-> "unknown"]

\* what the payload may refer to
QuoteRefs == {NoQuote, UnknownQuote, Quoted.quote}

\* steps 5 to 9 once the rates are known
Decide(c, src, tgt, source_amount, quote, rates) ==
  IF exceeds_monthly_limit(trader.monthly_used, trader.monthly_limit,
                           AmountUsd(src, source_amount, rates))
  THEN Refused(c, "400 limit")
  ELSE IF quote \notin quotes \cup {NoQuote}
  THEN Refused(c, "400 quote")
  ELSE create' = [create EXCEPT ![c] =
         [pc |-> "flush",
          seen_used |-> trader.monthly_used,
          amount_usd |-> AmountUsd(src, source_amount, rates),
          txn |-> NewTxn(src, source_amount,
                         IF quote = NoQuote
                         THEN FreshTerms(src, tgt, source_amount, rates,
                                         AmountUsd(src, source_amount, rates))
                         ELSE quote,
                         AmountUsd(src, source_amount, rates)),
          result |-> ""]]

\* create_transaction up to db.flush(): get_current_trader loads the row,
\* the pair and the minimum are validated, get_rates is called, the limit
\* is tested and trader.monthly_used is assigned on the object
CreateBegin(c, src, tgt, source_amount, quote) ==
  /\ create[c].pc = "idle"
  /\ Len(trader.created)
       + Cardinality({x \in Creators : create[x].pc # "idle"}) < MaxCreates
  /\ IF <<src, tgt>> \notin {<<"NGN", "CNY">>, <<"CNY", "NGN">>}
     THEN Refused(c, "400 pair") /\ UNCHANGED <<rate_cache, rate_history, breaker, fetches>>
     ELSE IF source_amount < (IF src = "NGN" THEN MIN_AMOUNT_NGN ELSE MIN_AMOUNT_CNY)
     THEN Refused(c, "400 minimum") /\ UNCHANGED <<rate_cache, rate_history, breaker, fetches>>
     ELSE /\ rate_cache' = get_rates(RateStore, rate_time, MockRates).st.cache
          /\ rate_history' = get_rates(RateStore, rate_time, MockRates).st.history
          /\ breaker' = get_rates(RateStore, rate_time, MockRates).st.breaker
          /\ fetches' = get_rates(RateStore, rate_time, MockRates).st.fetches
          /\ Decide(c, src, tgt, source_amount, quote,
                    get_rates(RateStore, rate_time, MockRates).rates)
  /\ UNCHANGED <<core_vars, fsm, matcher, rate_time, quotes, rate_reply, trader,
                 aux_vars>>

\* db.flush(): INSERT of the transaction and UPDATE traders SET
\* monthly_used = <value of the object>; the row stays locked until commit
CreateFlush(c) ==
  /\ create[c].pc = "flush"
  /\ trader.lock = NoId
  /\ trader' = [trader EXCEPT !.lock = c]
  /\ create' = [create EXCEPT ![c].pc = "commit"]
  /\ UNCHANGED <<core_vars, fsm, matcher, rate_vars, aux_vars>>

\* get_db commits after the response was built
CreateCommit(c) ==
  /\ create[c].pc = "commit"
  /\ trader' = [trader EXCEPT
                  !.monthly_used = create[c].seen_used + create[c].amount_usd,
                  !.created = Append(@, create[c].txn),
                  !.lock = NoId]
  /\ create' = [create EXCEPT ![c] = [CreateIdle EXCEPT !.result = "201"]]
  /\ UNCHANGED <<core_vars, fsm, matcher, rate_vars, aux_vars>>

NextCreate ==
  \/ \E c \in Creators : \E pair \in Pairs :
       \E source_amount \in CreateAmounts(pair[1]) :
         \E quote \in QuoteRefs :
           CreateBegin(c, pair[1], pair[2], source_amount, quote)
  \/ \E c \in Creators : CreateFlush(c)
  \/ \E c \in Creators : CreateCommit(c)

SpecCreate == InitCreate /\ [][NextCreate]_vars

\* USD amounts of the transactions created for the trader
RECURSIVE UsdOf(_)
UsdOf(rows) ==
  IF rows = <<>> THEN 0 ELSE Head(rows).amount_usd + UsdOf(Tail(rows))

\* C30: monthly_used never exceeds monthly_limit; a request whose amount
\* would take monthly_used above monthly_limit is answered 400 and changes
\* nothing; every other request adds its USD amount to monthly_used once,
\* so that monthly_used is the sum over the transactions created.
C30_MonthlyUsedIsSumWithinLimit ==
  [][/\ trader'.monthly_used <= trader'.monthly_limit
     /\ trader'.monthly_used = UsdOf(trader'.created)
     /\ \A c \in Creators :
          (create'[c] # create[c] /\ create'[c].result = "400 limit")
            => trader' = trader]_vars

\* ------------------------------------------- priority.py, called on its own
\* The module defines calculate_priority(entered_pool_at, amount, kyc_level,
\* completed_transactions); the score is kept in units of 1 / 6000 so that
\* every term is an integer.
PriorityUnit == 6000

\* KYC_SCORES.get(kyc_level, 0.0), in fifths
KYC_SCORES(kyc_level) ==
  CASE kyc_level = "none" -> 0
    [] kyc_level = "pending" -> 1
    [] kyc_level = "verified" -> 5
    [] OTHER -> 0

\* math.log10 on the powers of ten (the amounts below are powers of ten)
RECURSIVE Log10(_)
Log10(x) == IF x < 10 THEN 0 ELSE 1 + Log10(x \div 10)

\* min(math.log10(amount) / 8.0, 1.0), in eighths; 0 for amount <= 0
amount_score(amount) == IF amount > 0 THEN Min(Log10(amount), 8) ELSE 0

\* wait_hours = (now - entered_pool_at) in hours
\*   WEIGHT_WAIT_TIME 0.4 * min(wait_hours / 24, 1)    = 100 units per hour
\*   WEIGHT_AMOUNT_SIZE 0.3 * amount_score             = 225 units per eighth
\*   WEIGHT_KYC_LEVEL 0.2 * kyc_score                  = 240 units per fifth
\*   WEIGHT_HISTORY 0.1 * min(completed / 50, 1)       = 12 units per transaction
priority_py_calculate_priority(wait_hours, amount, kyc_level, completed_transactions) ==
  100 * Min(wait_hours, 24)
    + 225 * amount_score(amount)
    + 240 * KYC_SCORES(kyc_level)
    + 12 * Min(completed_transactions, 50)

WaitHours == {0, 12, 24, 25, 48}
ScoredAmounts == {0, 1, 1000, 100000, 1000000, 100000000, 1000000000}
KycLevels == {"none", "pending", "verified", "unknown"}
CompletedCounts == {0, 25, 50, 60}

InitPriority ==
  /\ Idle
  /\ now = 0
  /\ txns = [t \in Txns |-> InitTxn(t)]
  /\ fsm = NoTransit
  /\ matcher = NoRun
  /\ InitRate
  /\ InitTrader
  /\ store_op = NoStoreOp
  /\ lock_op = NoLockOp
  /\ \E h \in WaitHours, a \in ScoredAmounts, k \in KycLevels, c \in CompletedCounts :
       scorer = [NoScore EXCEPT !.wait_hours = h, !.amount = a, !.kyc_level = k,
                                !.completed_transactions = c]

Score ==
  /\ ~scorer.called
  /\ scorer' = [scorer EXCEPT
                  !.called = TRUE,
                  !.out = priority_py_calculate_priority(
                            scorer.wait_hours, scorer.amount, scorer.kyc_level,
                            scorer.completed_transactions)]
  /\ UNCHANGED <<core_vars, fsm, matcher, rate_vars, trader_vars, store_op, lock_op>>

NextPriority == Score

SpecPriority == InitPriority /\ [][NextPriority]_vars

\* the score of the same call with one input replaced
ScoreAtAge(h) ==
  priority_py_calculate_priority(h, scorer.amount, scorer.kyc_level,
                                 scorer.completed_transactions)
ScoreAtAmount(a) ==
  priority_py_calculate_priority(scorer.wait_hours, a, scorer.kyc_level,
                                 scorer.completed_transactions)

\* C31: every score is within [0, 100]; an age above 24 h scores as 24 h and
\* an amount above 100k scores as 100k; 24 h / 100k / highest KYC level
\* scores 100 and 0 h / 0 / no KYC level scores 0.
C31_PriorityClamped ==
  scorer.called =>
    /\ 0 <= scorer.out /\ scorer.out <= 100 * PriorityUnit
    /\ scorer.wait_hours >= 24 => scorer.out = ScoreAtAge(24)
    /\ scorer.amount >= 100000 => scorer.out = ScoreAtAmount(100000)
    /\ (scorer.wait_hours = 24 /\ scorer.amount = 100000
          /\ scorer.kyc_level = "verified") => scorer.out = 100 * PriorityUnit
    /\ (scorer.wait_hours = 0 /\ scorer.amount = 0
          /\ scorer.kyc_level \in {"none", "unknown"}
          /\ scorer.completed_transactions = 0) => scorer.out = 0

\* ------------------------------------------ the pool manager, called on its own
\* add_to_pool, remove_from_pool and update_entry_amount in any order on an
\* empty Redis. A pool entry id belongs to one transaction and so to one
\* direction; store_op.log keeps the last three calls with the store before
\* and after each.
MaxStoreOps == 4
StoreIds == {PoolIdBase + 1, PoolIdBase + 2}
StoreAmounts == {1000, 2000}
StoreScores == {10, 20}
StoreDirection(id) == TxnDirection(id - PoolIdBase)

Store(index, entries) == [index |-> index, entries |-> entries]

LastCalls(log) == IF Len(log) > 3 THEN Tail(log) ELSE log

Logged(fn, id, amount, score, after) ==
  [calls |-> store_op.calls + 1,
   log |-> LastCalls(Append(store_op.log,
                            [fn |-> fn, id |-> id, amount |-> amount, score |-> score,
                             before |-> Store(pool_index, pool_entry),
                             after |-> after]))]

StoreFrame ==
  UNCHANGED <<now, ticks, txns, pool_rows, matches, row_lock, pool_lock, next_pool_id,
              next_match_id, eng, hook, sweep, cancel, sent, calls, fsm, matcher,
              rate_vars, trader_vars, scorer, lock_op>>

InitPool ==
  /\ Quiet
  /\ now = 0
  /\ txns = [t \in Txns |-> InitTxn(t)]

StoreAdd(id, amount, score) ==
  /\ store_op.calls < MaxStoreOps
  /\ pool_index' =
       add_to_pool(pool_index, pool_entry, id, id - PoolIdBase, StoreDirection(id),
                   PoolData([source_amount |-> amount, direction |-> StoreDirection(id)],
                            now), score).index
  /\ pool_entry' =
       add_to_pool(pool_index, pool_entry, id, id - PoolIdBase, StoreDirection(id),
                   PoolData([source_amount |-> amount, direction |-> StoreDirection(id)],
                            now), score).entries
  /\ store_op' = Logged("add", id, amount, score, Store(pool_index', pool_entry'))
  /\ StoreFrame

StoreRemove(id) ==
  /\ store_op.calls < MaxStoreOps
  /\ pool_index' = remove_from_pool(pool_index, pool_entry, id, StoreDirection(id)).index
  /\ pool_entry' = remove_from_pool(pool_index, pool_entry, id, StoreDirection(id)).entries
  /\ store_op' = Logged("remove", id, NoAmount, 0, Store(pool_index', pool_entry'))
  /\ StoreFrame

StoreUpdate(id, new_amount) ==
  /\ store_op.calls < MaxStoreOps
  /\ pool_index' = update_entry_amount(pool_index, pool_entry, id, new_amount).index
  /\ pool_entry' = update_entry_amount(pool_index, pool_entry, id, new_amount).entries
  /\ store_op' = Logged("update", id, new_amount, 0, Store(pool_index', pool_entry'))
  /\ StoreFrame

NextPool ==
  \E id \in StoreIds :
    \/ \E amount \in StoreAmounts, score \in StoreScores : StoreAdd(id, amount, score)
    \/ StoreRemove(id)
    \/ \E new_amount \in StoreAmounts : StoreUpdate(id, new_amount)

SpecPool == InitPool /\ [][NextPool]_vars

\* the same call: same function and arguments
SameCall(c, d) ==
  /\ c.fn = d.fn
  /\ c.id = d.id
  /\ c.amount = d.amount
  /\ c.score = d.score

\* the last three calls were add, remove, the same add, on one entry
AddRemoveAdd ==
  /\ Len(store_op.log) = 3
  /\ store_op.log[1].fn = "add"
  /\ store_op.log[2].fn = "remove"
  /\ store_op.log[2].id = store_op.log[1].id
  /\ SameCall(store_op.log[1], store_op.log[3])

Indexed(st, id) == \E d \in Directions : id \in DOMAIN st.index[d]

\* C32: after add, remove and the same add the store (both ordered indexes
\* with their scores and every detail map) is as it was after the first
\* add, and every remove leaves neither an index member nor a detail map.
C32_AddRemoveAdd ==
  /\ AddRemoveAdd =>
       Store(pool_index, pool_entry) = store_op.log[1].after
  /\ \A i \in DOMAIN store_op.log :
       store_op.log[i].fn = "remove" =>
         /\ ~Indexed(store_op.log[i].after, store_op.log[i].id)
         /\ store_op.log[i].id \notin DOMAIN store_op.log[i].after.entries

\* add, remove, add on an entry while another entry is in the store
C32_Witness ==
  /\ AddRemoveAdd
  /\ \E o \in StoreIds : o # store_op.log[1].id /\ Indexed(store_op.log[1].after, o)
  /\ Indexed(store_op.log[2].before, store_op.log[2].id)

\* the entry is in an ordered index and has its detail map
Present(st, id) == Indexed(st, id) /\ id \in DOMAIN st.entries

SnapshotIn(st, direction) == get_pool_snapshot(st.index, st.entries, direction)

\* C33: update_entry_amount on an entry of the pool changes source_amount in
\* that entry's detail map and nothing else: both ordered indexes keep their
\* members and scores, the entry keeps its other fields, the other entries
\* are untouched, and the snapshot lists the same entries in the same order
\* with the new amount.
C33_UpdateWritesDetailOnly ==
  \A i \in DOMAIN store_op.log :
    LET c == store_op.log[i]
    IN (c.fn = "update" /\ Present(c.before, c.id)) =>
         /\ c.after.index = c.before.index
         /\ DOMAIN c.after.entries = DOMAIN c.before.entries
         /\ \A m \in DOMAIN c.before.entries :
              c.after.entries[m] =
                IF m = c.id THEN [c.before.entries[m] EXCEPT !.source_amount = c.amount]
                ELSE c.before.entries[m]
         /\ \A d \in Directions :
              /\ Len(SnapshotIn(c.after, d)) = Len(SnapshotIn(c.before, d))
              /\ \A k \in DOMAIN SnapshotIn(c.after, d) :
                   /\ SnapshotIn(c.after, d)[k].id = SnapshotIn(c.before, d)[k].id
                   /\ SnapshotIn(c.after, d)[k].score = SnapshotIn(c.before, d)[k].score
                   /\ SnapshotIn(c.after, d)[k].id = c.id =>
                        SnapshotIn(c.after, d)[k].source_amount = c.amount

\* an entry of the pool gets a different amount while another entry is in
\* the pool
C33_Witness ==
  /\ store_op.log # <<>>
  /\ LET c == store_op.log[Len(store_op.log)]
     IN /\ c.fn = "update"
        /\ Present(c.before, c.id)
        /\ c.before.entries[c.id].source_amount # c.amount
        /\ \E o \in StoreIds : o # c.id /\ Present(c.before, o)

\* C38: after any sequence of add, remove and update_amount calls an entry id
\* is a member of an ordered index exactly when its detail map exists.
C38_IndexIffDetails ==
  \A id \in StoreIds :
    Indexed(Store(pool_index, pool_entry), id) <=> id \in DOMAIN pool_entry

\* ------------------------------------------------ amounts of the Match records
\* the sum of matched_amount over the first n Match records that cite t
RECURSIVE MatchedSum(_, _)
MatchedSum(t, n) ==
  IF n = 0 THEN 0
  ELSE MatchedSum(t, n - 1)
         + (IF t \in CitedBy(matches[n]) THEN matches[n].matched_amount ELSE 0)

\* C34: for every transaction with a pool row, the matched_amount of the
\* Match records that cite it sum to no more than the amount it entered the
\* pool with; the leg records of a multi-leg match thus sum to no more than
\* the target's amount.
C34_MatchedWithinPoolAmount ==
  \A row \in pool_rows :
    MatchedSum(row.transaction_id, Len(matches)) <= row.amount

\* ---------------------------------------------- whom the Match records cite
\* C35: when a cycle has run its persist step, every Match record it added
\* cites two transactions that were FUNDED or MATCHING when the step read
\* them, and the step has assigned match_id or settlement_method to no
\* transaction that was in another status.
C35_MatchesCiteFundedOnly ==
  [][\A p \in Procs :
       (eng[p].pc = "timeouts" /\ eng'[p].pc = "commit") =>
         /\ \A i \in DOMAIN eng'[p].added :
              \A t \in CitedBy(eng'[p].added[i]) :
                t \in Txns /\ txns[t].status \in {FUNDED, MATCHING}
         /\ \A t \in DOMAIN eng'[p].seen :
              (eng'[p].seen[t].match_dirty \/ eng'[p].seen[t].method_dirty) =>
                txns[t].status \in {FUNDED, MATCHING}]_vars

\* ------------------------------------------- ingestion with a failing commit
\* get_db: session.commit() raises after the handler has returned (or the
\* handler raises after add_to_pool): the session is rolled back, which
\* undoes the UPDATE and the INSERT and releases the row lock; the pool
\* store is not part of the session
HookFail(h) ==
  /\ hook[h].pc = "commit"
  /\ row_lock' = [t \in Txns |-> IF row_lock[t] = h THEN NoId ELSE row_lock[t]]
  /\ hook' = [hook EXCEPT ![h] = HookIdle]
  /\ UNCHANGED <<svc_vars, now, ticks, db_vars, redis_pool_vars, pool_lock, next_pool_id,
                 next_match_id, eng, sweep, cancel, sent, calls>>

\* the payment webhook alone, its commit succeeding or failing
NextIngest ==
  \/ \E h \in Hooks, t \in Txns : \E pct \in PaidPercents(t) : HookReceive(h, t, pct)
  \/ \E h \in Hooks : HookAddToPool(h)
  \/ \E h \in Hooks : HookCommit(h)
  \/ \E h \in Hooks : HookFail(h)

SpecIngest == Init /\ [][NextIngest]_vars

\* C36: once no webhook call is in progress, every entry of the pool store
\* belongs to a transaction that is FUNDED in the database and has its pool
\* row there.
C36_StoreEntriesCommitted ==
  (\A h \in Hooks : hook[h].pc = "idle") =>
    \A id \in DOMAIN pool_entry :
      /\ pool_entry[id].transaction_id \in Txns
      /\ txns[pool_entry[id].transaction_id].status = FUNDED
      /\ \E row \in pool_rows :
           row.id = id /\ row.transaction_id = pool_entry[id].transaction_id

\* --------------------------------------------- the pool store and the pool rows
\* no cycle, webhook call, sweep or cancel request is in progress
AtRest == InFlight = 0

\* a pool row whose transaction a partial match has sent back to MATCHING
\* with a remainder
CarriesRemainder(row) == txns[row.transaction_id].status = MATCHING

\* C37: while nothing is in progress, an entry is in the pool store exactly
\* when its pool row is active; stated for the entries that carry the
\* remainder of a partial match, which the claim names.
C37_StoreIffActiveRow ==
  AtRest =>
    \A row \in pool_rows :
      CarriesRemainder(row) => (row.is_active <=> InStore(row.id))

\* ------------------------------------------------- the pool lock on its own
\* run_cycle invocations as far as the lock goes: acquire_lock with a fresh
\* Lock object, release_lock in the finally block of the invocations that
\* got the lock, and the key expiring in between. lock_op.active holds the
\* tokens acquired and not yet released.
MaxLockOps == 5
NToken == 3
Tokens == 1 .. NToken

LockFrame ==
  UNCHANGED <<now, ticks, db_vars, row_lock, redis_pool_vars, next_pool_id,
              next_match_id, eng, hook, sweep, cancel, sent, calls, fsm, matcher,
              rate_vars, trader_vars, scorer, store_op>>

LockAcquire(token) ==
  /\ lock_op.calls < MaxLockOps
  /\ token \notin lock_op.active
  /\ pool_lock' = acquire_lock(pool_lock, token).held
  /\ lock_op' =
       [calls |-> lock_op.calls + 1,
        active |-> IF acquire_lock(pool_lock, token).acquired
                   THEN lock_op.active \cup {token} ELSE lock_op.active,
        last |-> [fn |-> "acquire", token |-> token, before |-> pool_lock,
                  after |-> pool_lock']]
  /\ LockFrame

LockRelease(token) ==
  /\ token \in lock_op.active
  /\ pool_lock' = release_lock(pool_lock, token)
  /\ lock_op' =
       [calls |-> lock_op.calls,
        active |-> lock_op.active \ {token},
        last |-> [fn |-> "release", token |-> token, before |-> pool_lock,
                  after |-> pool_lock']]
  /\ LockFrame

\* the key expires while its owner has not released it
LockTimeout ==
  /\ pool_lock \in lock_op.active
  /\ pool_lock' = NoId
  /\ lock_op' = [lock_op EXCEPT !.last.fn = "expire", !.last.token = pool_lock,
                                !.last.before = pool_lock, !.last.after = NoId]
  /\ LockFrame

NextLock ==
  \/ \E token \in Tokens : LockAcquire(token)
  \/ \E token \in Tokens : LockRelease(token)
  \/ LockTimeout

InitLock ==
  /\ Quiet
  /\ now = 0
  /\ txns = [t \in Txns |-> InitTxn(t)]

SpecLock == InitLock /\ [][NextLock]_vars

\* C39: release_lock frees the lock only when the key still holds the
\* caller's token; when the caller's lock has expired the key is left as it
\* is, whether it is free or holds the token of another invocation.
C39_ReleaseOwnLockOnly ==
  lock_op.last.fn = "release" =>
    /\ lock_op.last.before = lock_op.last.token => lock_op.last.after = NoId
    /\ lock_op.last.before # lock_op.last.token =>
         lock_op.last.after = lock_op.last.before
    /\ pool_lock = lock_op.last.after

\* an invocation releases after its lock has expired and another invocation
\* has acquired the lock
C39_Witness ==
  /\ lock_op.last.fn = "release"
  /\ lock_op.last.before \in lock_op.active
  /\ lock_op.last.before # lock_op.last.token
  /\ pool_lock = lock_op.last.before

\* ------------------------------------------------ matched and timed out at once
\* the pool-entry ids in the match descriptors of a plan
MatchedIds(plan) ==
  UNION {IdsOf(AllDescriptors(plan)[k]) : k \in 1 .. Len(AllDescriptors(plan))}

\* C40: when a cycle has run its timeout sweep and persist step, no pool
\* entry is both in one of the cycle's match descriptors, for which Match
\* records have been added, and in the list the timeout sweep removed from
\* the pool store and returned.
C40_MatchedNotTimedOut ==
  [][\A p \in Procs :
       (eng[p].pc = "timeouts" /\ eng'[p].pc = "commit" /\ eng'[p].added # <<>>) =>
         MatchedIds(eng'[p].plan)
           \cap {eng'[p].timed_out[k].transaction_id :
                   k \in 1 .. Len(eng'[p].timed_out)} = {}]_vars

====
